---- MODULE Spec2Model ----
(***************************************************************************)
(* Model of the cluster provisioning and bootstrap orchestrator of         *)
(* avalanche-cli: `avalanche node create` (cmd/nodecmd/create.go).         *)
(*                                                                         *)
(* The main goroutine of createNodes is the process `pc`; the goroutines   *)
(* of the three fan-outs (readiness, bootstrap, monitoring agent           *)
(* configuration) are per-host processes rpc, bpc and apc.  Cloud          *)
(* provider calls, remote steps and file writes are external: each either  *)
(* succeeds or returns one of the errors of Errs.                          *)
(***************************************************************************)
EXTENDS Integers, Sequences, FiniteSets, TLC

(***************************************************************************)
(* Bounds of the model.                                                    *)
(***************************************************************************)
\* most instances one run asks for, over all its regions
MaxHosts == 2
\* most remote-step failures the environment injects into worker goroutines
MaxFaults == 2

Regions == {"us-east-1", "us-west-2"}
Errs == {"ssh: handshake failed: EOF", "timeout"}
Nil == "nil"
NoInstance == <<>>
ClusterName == "cluster1"

\* an instance of an earlier run on the same cluster name, and its monitor
PriorNode == <<"us-east-1", -1>>
PriorMonitor == <<"us-east-1", -2>>

VARIABLES
    pc,                         \* position of the main goroutine of createNodes
    retval,                     \* what createNodes returned
    network,                    \* requested network kind
    cloudService,               \* constants.AWSCloudService or GCPCloudService
    useStaticIP,                \* flag --use-static-ip
    addMonitoring,              \* flag --with-prometheus (a mutable global)
    numNodesMap,                \* region -> NumNodes{numValidators, numAPI}
    existingMonitoringInstance, \* global set from the topology store
    monitoringHostRegion,
    cloudConfigMap,             \* models.CloudConfig: region -> RegionConfig
    monitoringNodeConfig,       \* models.RegionConfig of the monitoring host
    publicIPMap,                \* instance id -> address
    clustersConfig,             \* the persisted Cluster Topology Store
    keyPairs,                   \* the KeyPair map of the Cluster Topology Store
    inventory,                  \* ansible inventory of the cluster (host list)
    monitoringInventory,        \* ansible inventory of the monitoring host
    regionsLeft,                \* regions a `for region := range map` has not visited
    curRegion,                  \* region of the current loop iteration
    idx,                        \* index of the current inner loop iteration
    hosts,                      \* hosts dispatched by this run
    monitoringHosts,
    createdWaitGroup,           \* sync.WaitGroup of waitForHosts
    hostErrors,                 \* models.NodeResults of waitForHosts
    wg,                         \* sync.WaitGroup of the bootstrap fan-out
    wgResults,                  \* models.NodeResults of the bootstrap fan-out
    monWg,                      \* sync.WaitGroup of the agent configuration fan-out
    monWgResults,               \* models.NodeResults of the agent configuration fan-out
    err,                        \* the `err` variable of createNodes, captured by closures
    rpc,                        \* readiness goroutine of each host
    bpc,                        \* bootstrap goroutine of each host
    apc,                        \* agent configuration goroutine of each host
    stepsRun,                   \* per goroutine of the fan-out in progress: its steps and results
    faults,                     \* failures injected so far
    avalancheGoPorts,           \* scrape targets of the node API, built by createNodes
    machinePorts,               \* scrape targets of the machine metrics, built by createNodes
    prometheusConfig,           \* the scrape targets the monitoring host holds
    taskTitle,                  \* RunOverSSH: the titles of the tasks of the script
    taskN,                      \* RunOverSSH: index n of the task of the current iteration
    sshPc,                      \* RunOverSSH: position in the function
    sshErr,                     \* RunOverSSH: the variable err of the loop body
    sshRet,                     \* RunOverSSH: the value returned
    commands,                   \* RunOverSSH: the calls of host.Command made so far
    deployPc,                   \* deploySubnet: position in the function
    deployRet,                  \* deploySubnet: the value returned
    deployNetwork,              \* deploySubnet: the network of the deploy
    subnetIDStr,                \* flag --subnet-id
    createSubnet,               \* deploySubnet: whether a subnet is to be created
    subnetID,                   \* deploySubnet: the subnet deployed into
    blockchainID,               \* deploySubnet: the blockchain DeployBlockchain returned
    isFullySigned,              \* deploySubnet: whether the blockchain tx had all signatures
    deployErr,                  \* deploySubnet: the error of DeployBlockchain
    sidecarNetworks,            \* the persisted sidecar.Networks of the subnet
    chainSubnets,               \* the subnets created on the networks
    chainBlockchains,           \* the blockchains created on the networks
    partialTxs,                 \* the partially signed transactions saved
    deploys,                    \* invocations of deploySubnet so far
    flags,                      \* the command-line flags of `node create`
    configFile,                 \* the content of a node's config.json
    configRet,                  \* what the calls of addHTTPHostToConfigFile returned
    configOrig,                 \* the content before the first call
    script,                     \* the rendered script splitScript reads
    tasks,                      \* the buffers splitScript returned
    fwdPc,                      \* where Host.Forward is
    fwdRet,                     \* what Host.Forward returned
    gpc,                        \* where each copy goroutine of Forward is
    fwdErr,                     \* the err variable of Forward
    errWriters,                 \* the goroutines that assigned err
    sending,                    \* the value each goroutine is sending to errorChan
    clientClosed,               \* the deferred client.Close() has run
    keyFlags,                   \* --control-keys, --same-control-key, --threshold, --subnet-auth-keys
    controlKeys,                \* the control keys of the subnet to create
    threshold,                  \* the threshold of the subnet to create
    keysPc,                     \* where the key and threshold block of deploySubnet is
    keysRet,                    \* what deploySubnet returned from the block
    deployArgs,                 \* the arguments DeploySubnet was called with
    networkFlags,               \* --local, --devnet, --fuji, --mainnet and the supported kinds
    flagNetwork,                \* GetNetworkFromCmdLineFlags: its local variable network
    networkPc,                  \* where GetNetworkFromCmdLineFlags is
    networkRet,                 \* what GetNetworkFromCmdLineFlags returned
    keychainArgs,               \* the arguments GetKeychainFromCmdLineFlags was called with
    useLedger,                  \* *useLedger, which the caller sees
    useEwoq,                    \* GetKeychainFromCmdLineFlags: its parameter useEwoq
    keyName,                    \* GetKeychainFromCmdLineFlags: its parameter keyName
    keychainPc,                 \* where GetKeychainFromCmdLineFlags is
    keychainRet                 \* what GetKeychainFromCmdLineFlags returned

nodeVars == <<pc, retval, network, cloudService, useStaticIP, addMonitoring, numNodesMap,
          existingMonitoringInstance, monitoringHostRegion, cloudConfigMap,
          monitoringNodeConfig, publicIPMap, clustersConfig, keyPairs, inventory,
          monitoringInventory, regionsLeft, curRegion, idx, hosts, monitoringHosts,
          createdWaitGroup, hostErrors, wg, wgResults, monWg, monWgResults, err,
          rpc, bpc, apc, stepsRun, faults, avalancheGoPorts, machinePorts,
          prometheusConfig>>
sshVars == <<taskTitle, taskN, sshPc, sshErr, sshRet, commands>>
deployVars == <<deployPc, deployRet, deployNetwork, subnetIDStr, createSubnet, subnetID,
                blockchainID, isFullySigned, deployErr, sidecarNetworks, chainSubnets,
                chainBlockchains, partialTxs, deploys>>
configVars == <<configFile, configRet, configOrig>>
splitVars == <<script, tasks>>
fwdVars == <<fwdPc, fwdRet, gpc, fwdErr, errWriters, sending, clientClosed>>
thresholdVars == <<keyFlags, controlKeys, threshold, keysPc, keysRet, deployArgs>>
networkVars == <<networkFlags, flagNetwork, networkPc, networkRet>>
keychainVars == <<keychainArgs, useLedger, useEwoq, keyName, keychainPc, keychainRet>>
pureVars == <<flags, configVars, splitVars, fwdVars, thresholdVars, networkVars, keychainVars>>
vars == <<nodeVars, sshVars, deployVars, pureVars>>

requestVars == <<network, cloudService, useStaticIP, numNodesMap>>
allocVars == <<existingMonitoringInstance, monitoringHostRegion, cloudConfigMap,
               monitoringNodeConfig, publicIPMap>>
loopVars == <<regionsLeft, curRegion, idx>>
storeVars == <<clustersConfig, keyPairs, inventory, monitoringInventory>>
readyVars == <<createdWaitGroup, hostErrors, rpc>>
bootVars == <<wg, wgResults, bpc, stepsRun>>
agentVars == <<monWg, monWgResults, apc, err>>
targetVars == <<avalancheGoPorts, machinePorts, prometheusConfig>>

(***************************************************************************)
(* Helpers on sequences.                                                   *)
(***************************************************************************)
Range(s) == {s[i] : i \in DOMAIN s}

Contains(s, x) == \E i \in DOMAIN s : s[i] = x

Filter(s, Keep(_)) == SelectSeq(s, Keep)

RECURSIVE SumOver(_, _)
SumOver(f, S) ==
    IF S = {} THEN 0
    ELSE LET x == CHOOSE y \in S : TRUE IN f[x] + SumOver(f, S \ {x})

\* utils.SplitSliceAt: the two halves of s around index at (0-based, exclusive)
SplitSliceAt(s, at) ==
    IF at <= 0 THEN <<(<<>>), s>>
    ELSE IF at >= Len(s) THEN <<s, (<<>>)>>
    ELSE <<SubSeq(s, 1, at), SubSeq(s, at + 1, Len(s))>>

EmptyMap == [k \in {} |-> Nil]

(***************************************************************************)
(* models.NodeResults: the Result Aggregator.  One list of recorded        *)
(* outcomes per host identity; an outcome is (value, error).               *)
(***************************************************************************)
EmptyResults == [k \in {} |-> <<>>]

AddResult(nr, nodeID, value, e) ==
    IF nodeID \in DOMAIN nr
    THEN [nr EXCEPT ![nodeID] = Append(@, [Value |-> value, Err |-> e])]
    ELSE (nodeID :> <<[Value |-> value, Err |-> e]>>) @@ nr

ResultsLen(nr) == SumOver([k \in DOMAIN nr |-> Len(nr[k])], DOMAIN nr)

GetNodeList(nr) == DOMAIN nr

GetErrorHostMap(nr) ==
    LET failed == {k \in DOMAIN nr : \E i \in DOMAIN nr[k] : nr[k][i].Err # Nil}
    IN [k \in failed |-> nr[k][CHOOSE i \in DOMAIN nr[k] :
                                   /\ nr[k][i].Err # Nil
                                   /\ \A j \in DOMAIN nr[k] : nr[k][j].Err # Nil => j <= i].Err]

HasNodeIDWithError(nr, nodeID) == nodeID \in DOMAIN GetErrorHostMap(nr)

HasErrors(nr) == DOMAIN GetErrorHostMap(nr) # {}

\* a goroutine that records a fixed error instead of the one its step returned
RecordOutcome_Generic(nr, nodeID, e) ==
    IF e # Nil THEN AddResult(nr, nodeID, Nil, "timeout") ELSE nr

\* a goroutine that records an outcome whether or not its step failed
RecordOutcome_Always(nr, nodeID, e) == AddResult(nr, nodeID, Nil, e)

\* `if err := step(); err != nil { nodeResults.AddResult(host.NodeID, nil, err) }`
RecordOutcome(nr, nodeID, e) ==
    IF e # Nil THEN AddResult(nr, nodeID, Nil, e) ELSE nr

\* a closure that captures the loop variable: every goroutine sees the last host
GoroutineHost_Captured(hs, i) == hs[Len(hs)]

\* `go func(nodeResults *models.NodeResults, host *models.Host) {...}(&results, host)`:
\* the host of goroutine i is the host of iteration i, passed by value
GoroutineHost(hs, i) == hs[i]

\* a barrier that returns while one goroutine is still running
Wait_OneLeft(counter) == counter <= 1

\* sync.WaitGroup.Wait returns once the counter is zero
Wait(counter) == counter = 0

\* a gate that lets one unreachable host through
ReadinessFailed_OffByOne(nr) == ResultsLen(nr) > 1

\* `failedHosts.Len() > 0`
ReadinessFailed(nr) == ResultsLen(nr) > 0

(***************************************************************************)
(* Hosts and identifiers.                                                  *)
(***************************************************************************)
\* models.HostCloudIDToAnsibleID: the inventory name of a cloud instance
HostCloudIDToAnsibleID(cs, cloudID) ==
    IF cs = "aws" THEN <<"aws_node">> \o cloudID ELSE <<"gcp_node">> \o cloudID

\* Host.GetCloudID: the cloud instance id back from the inventory name
GetCloudID(nodeID) == Tail(nodeID)

\* the instance identifiers a provider returns for n instances in a region
NewInstanceIDs(region, n) == [k \in 1..n |-> <<region, k>>]
NewMonitorID(region) == <<region, 0>>

\* the address the provider reports for an instance, and its elastic address
LookupIP(id) == <<"ip">> \o id
ElasticIP(id) == <<"eip">> \o id

\* CloudConfig.GetAllInstanceIDs
GetAllInstanceIDs(ccm) == UNION {Range(ccm[r].InstanceIDs) : r \in DOMAIN ccm}

NoRegionConfig == [InstanceIDs |-> <<>>, PublicIPs |-> <<>>, APIInstanceIDs |-> <<>>]

(***************************************************************************)
(* The Cluster Topology Store.                                             *)
(***************************************************************************)
NoCluster == [Network |-> "", Nodes |-> <<>>, APINodes |-> <<>>,
              MonitoringInstance |-> NoInstance]

\* a store that starts from an empty cluster instead of the loaded one
addNodeToClustersConfig_NoLoad(cfg, net, nodeID, clusterName, isAPIInstance, isMonitoringInstance) ==
    LET c1 == [NoCluster EXCEPT !.Network = net]
        c2 == IF isMonitoringInstance
              THEN [c1 EXCEPT !.MonitoringInstance = nodeID]
              ELSE [c1 EXCEPT !.Nodes = Append(@, nodeID)]
        c3 == IF isAPIInstance THEN [c2 EXCEPT !.APINodes = Append(@, nodeID)] ELSE c2
    IN (clusterName :> c3) @@ cfg

\* a store that appends the node twice
addNodeToClustersConfig_Twice(cfg, net, nodeID, clusterName, isAPIInstance, isMonitoringInstance) ==
    LET clusterConfig == IF clusterName \in DOMAIN cfg THEN cfg[clusterName] ELSE NoCluster
        c1 == [clusterConfig EXCEPT !.Network = net]
        c2 == IF isMonitoringInstance
              THEN [c1 EXCEPT !.MonitoringInstance = nodeID]
              ELSE [c1 EXCEPT !.Nodes = Append(Append(@, nodeID), nodeID)]
        c3 == IF isAPIInstance THEN [c2 EXCEPT !.APINodes = Append(@, nodeID)] ELSE c2
    IN (clusterName :> c3) @@ cfg

\* addNodeToClustersConfig: load, modify, store
addNodeToClustersConfig(cfg, net, nodeID, clusterName, isAPIInstance, isMonitoringInstance) ==
    LET clusterConfig == IF clusterName \in DOMAIN cfg THEN cfg[clusterName] ELSE NoCluster
        c1 == [clusterConfig EXCEPT !.Network = net]
        c2 == IF isMonitoringInstance
              THEN [c1 EXCEPT !.MonitoringInstance = nodeID]
              ELSE [c1 EXCEPT !.Nodes = Append(@, nodeID)]
        c3 == IF isAPIInstance THEN [c2 EXCEPT !.APINodes = Append(@, nodeID)] ELSE c2
    IN (clusterName :> c3) @@ cfg

\* the key pair of a region and the file of its certificate
KeyPairName(region) == <<"keypair", region>>
CertFilePath(region) == <<"cert", region>>

\* updateKeyPairClustersConfig: load, add the key pair if it is not there, store
updateKeyPairClustersConfig(kp, region) ==
    IF KeyPairName(region) \in DOMAIN kp
    THEN kp
    ELSE (KeyPairName(region) :> CertFilePath(region)) @@ kp

\* getExistingMonitoringInstance
getExistingMonitoringInstance(cfg, clusterName) ==
    IF clusterName \in DOMAIN cfg /\ cfg[clusterName].MonitoringInstance # NoInstance
    THEN cfg[clusterName].MonitoringInstance
    ELSE NoInstance

\* the topology stores an earlier run on the cluster name can have left
PriorStores ==
    { EmptyMap,
      (ClusterName :> [Network |-> "fuji", Nodes |-> <<PriorNode>>, APINodes |-> <<>>,
                       MonitoringInstance |-> NoInstance]),
      (ClusterName :> [Network |-> "fuji", Nodes |-> <<PriorNode>>, APINodes |-> <<>>,
                       MonitoringInstance |-> PriorMonitor]) }

\* `fmt.Sprintf("'%s:%s'", host.IP, port)`: one scrape target
Target(ip, port) == <<ip, port>>

\* a monitoring host that holds no scrape target
NoTargets == [avalancheGo |-> <<>>, machine |-> <<>>]

\* the value of createNodes before it returns
NoReturn == [kind |-> "running", hosts |-> {}]

(***************************************************************************)
(* The request.                                                            *)
(***************************************************************************)
NumNodes == [numValidators : 1..MaxHosts, numAPI : 0..MaxHosts]

TotalNodes(nnm) == SumOver([r \in DOMAIN nnm |-> nnm[r].numValidators + nnm[r].numAPI],
                           DOMAIN nnm)

\* the regions of a request: one region, or both
RegionChoices == {{"us-east-1"}, Regions}

\* the per-region node counts getAWSCloudConfig / getGCPConfig can return
Requests(net) ==
    { nnm \in UNION {[R -> NumNodes] : R \in RegionChoices} :
        /\ TotalNodes(nnm) <= MaxHosts
        /\ (net # "devnet" => \A r \in DOMAIN nnm : nnm[r].numAPI = 0) }

\* the state createNodes starts in, the node counts of the request apart
InitRest ==
    /\ retval = NoReturn
    /\ network \in {"fuji", "devnet"}
    /\ cloudService \in {"aws", "gcp"}
    /\ useStaticIP \in BOOLEAN
    /\ addMonitoring \in BOOLEAN
    /\ existingMonitoringInstance = NoInstance
    /\ monitoringHostRegion = ""
    /\ cloudConfigMap = EmptyMap
    /\ monitoringNodeConfig = NoRegionConfig
    /\ publicIPMap = EmptyMap
    /\ clustersConfig \in PriorStores
    /\ keyPairs = IF getExistingMonitoringInstance(clustersConfig, ClusterName) # NoInstance
                  THEN updateKeyPairClustersConfig(EmptyMap, PriorMonitor[1])
                  ELSE EmptyMap
    /\ inventory = IF ClusterName \in DOMAIN clustersConfig
                   THEN <<HostCloudIDToAnsibleID(cloudService, PriorNode)>> ELSE <<>>
    /\ monitoringInventory =
           IF getExistingMonitoringInstance(clustersConfig, ClusterName) # NoInstance
           THEN <<HostCloudIDToAnsibleID(cloudService, PriorMonitor)>> ELSE <<>>
    /\ regionsLeft = {}
    /\ curRegion = ""
    /\ idx = 0
    /\ hosts = <<>>
    /\ monitoringHosts = <<>>
    /\ createdWaitGroup = 0
    /\ hostErrors = EmptyResults
    /\ wg = 0
    /\ wgResults = EmptyResults
    /\ monWg = 0
    /\ monWgResults = EmptyResults
    /\ err = Nil
    /\ rpc = <<>>
    /\ bpc = <<>>
    /\ apc = <<>>
    /\ stepsRun = <<>>
    /\ faults = 0
    /\ avalancheGoPorts = <<>>
    /\ machinePorts = <<>>
    /\ prometheusConfig =
           IF getExistingMonitoringInstance(clustersConfig, ClusterName) # NoInstance
           THEN [avalancheGo |-> <<Target(LookupIP(PriorNode), "AvalanchegoAPIPort")>>,
                 machine |-> <<Target(LookupIP(PriorNode), "AvalanchegoMachineMetricsPort")>>]
           ELSE NoTargets

\* no script is being run by RunOverSSH
SSHIdle ==
    /\ taskTitle = <<>>
    /\ taskN = 0
    /\ sshPc = "idle"
    /\ sshErr = Nil
    /\ sshRet = Nil
    /\ commands = <<>>

\* ids.Empty
Empty == <<>>

\* no deploy of the subnet has been asked for
DeployIdle ==
    /\ deployPc = "idle"
    /\ deployRet = Nil
    /\ deployNetwork = ""
    /\ subnetIDStr = Empty
    /\ createSubnet = FALSE
    /\ subnetID = Empty
    /\ blockchainID = Empty
    /\ isFullySigned = FALSE
    /\ deployErr = Nil
    /\ sidecarNetworks = EmptyMap
    /\ chainSubnets = {}
    /\ chainBlockchains = {}
    /\ partialTxs = {}
    /\ deploys = 0

\* the flags of a run that passed preCreateChecks and asks for its regions
NoFlags ==
    [useLatestAvalanchegoReleaseVersion |-> FALSE,
     useLatestAvalanchegoPreReleaseVersion |-> FALSE,
     useAvalanchegoVersionFromSubnet |-> "",
     useCustomAvalanchegoVersion |-> "",
     useAWS |-> FALSE, useGCP |-> FALSE, awsProfile |-> "default",
     cmdLineRegion |-> <<>>, numValidatorsNodes |-> <<>>, numAPINodes |-> <<>>,
     sshIdentity |-> "", useSSHAgent |-> FALSE, isSSHAgentAvailable |-> TRUE,
     createDevnet |-> FALSE]

\* a config.json that does not exist
NoFile == [kind |-> "missing", fields |-> <<>>]

FlagsIdle == flags = NoFlags
ConfigIdle == configFile = NoFile /\ configRet = <<>> /\ configOrig = NoFile
\* an empty script
NoScript == [lines |-> <<>>, terminated |-> TRUE]
SplitIdle == script = NoScript /\ tasks = <<>>
ForwardIdle ==
    /\ fwdPc = "idle"
    /\ fwdRet = Nil
    /\ gpc = <<>>
    /\ fwdErr = Nil
    /\ errWriters = {}
    /\ sending = <<>>
    /\ clientClosed = FALSE
\* a Go slice: nil, or a list of keys
NilSlice == [isNil |-> TRUE, elems |-> <<>>]
NoKeyFlags == [controlKeys |-> NilSlice, sameControlKey |-> FALSE, threshold |-> 0,
               subnetAuthKeys |-> NilSlice]
NoArgs == [called |-> FALSE, controlKeys |-> <<>>, threshold |-> 0]
ThresholdIdle ==
    /\ keyFlags = NoKeyFlags
    /\ controlKeys = NilSlice
    /\ threshold = 0
    /\ keysPc = "idle"
    /\ keysRet = Nil
    /\ deployArgs = NoArgs
NoNetworkFlags == [useLocal |-> FALSE, useDevnet |-> FALSE, useFuji |-> FALSE,
                   useMainnet |-> FALSE, supportedNetworkKinds |-> {}]
NoNetwork == [network |-> "Undefined", err |-> Nil]
NetworkIdle ==
    /\ networkFlags = NoNetworkFlags
    /\ flagNetwork = "Undefined"
    /\ networkPc = "idle"
    /\ networkRet = NoNetwork
NoKeychainArgs == [network |-> "Local", keyName |-> "", useEwoq |-> FALSE,
                   useLedger |-> FALSE, ledgerAddresses |-> <<>>]
NoKeychain == [keychain |-> Nil, err |-> Nil]
KeychainIdle ==
    /\ keychainArgs = NoKeychainArgs
    /\ useLedger = FALSE
    /\ useEwoq = FALSE
    /\ keyName = ""
    /\ keychainPc = "idle"
    /\ keychainRet = NoKeychain
PureIdle ==
    /\ FlagsIdle
    /\ ConfigIdle
    /\ SplitIdle
    /\ ForwardIdle
    /\ ThresholdIdle
    /\ NetworkIdle
    /\ KeychainIdle

Init ==
    /\ pc = "start"
    /\ InitRest
    /\ numNodesMap \in Requests(network)
    /\ SSHIdle
    /\ DeployIdle
    /\ PureIdle

(***************************************************************************)
(* createNodes returns.                                                    *)
(***************************************************************************)
Return(kind, names) ==
    /\ pc' = "done"
    /\ retval' = [kind |-> kind, hosts |-> names]

(***************************************************************************)
(* Allocation phase (createNodes, cloud provider branch).                  *)
(***************************************************************************)
\* createAWSInstances / createGCPInstance: the RegionConfig of every region
createInstances(nnm, static) ==
    [r \in DOMAIN nnm |->
        LET ids == NewInstanceIDs(r, nnm[r].numValidators + nnm[r].numAPI)
        IN [InstanceIDs |-> ids,
            PublicIPs |-> IF static THEN [k \in DOMAIN ids |-> ElasticIP(ids[k])] ELSE <<>>,
            APIInstanceIDs |-> <<>>]]

\* getNodeCloudConfig of a recorded instance
getNodeCloudConfig(node) ==
    [InstanceIDs |-> <<node>>, PublicIPs |-> <<LookupIP(node)>>, APIInstanceIDs |-> <<>>]

GetExisting ==
    /\ pc = "start"
    /\ existingMonitoringInstance' = getExistingMonitoringInstance(clustersConfig, ClusterName)
    /\ pc' = "createInstances"
    /\ UNCHANGED <<retval, requestVars, sshVars, deployVars, pureVars, targetVars, addMonitoring, monitoringHostRegion, cloudConfigMap,
                   monitoringNodeConfig, publicIPMap, loopVars, storeVars, hosts,
                   monitoringHosts, readyVars, bootVars, agentVars, faults>>

CreateInstances ==
    /\ pc = "createInstances"
    /\ \/ /\ Return("allocation", {})
          /\ UNCHANGED <<monitoringHostRegion, cloudConfigMap>>
       \/ /\ \E r \in DOMAIN numNodesMap :
                 monitoringHostRegion' =
                     IF existingMonitoringInstance = NoInstance THEN r ELSE monitoringHostRegion
          /\ cloudConfigMap' = createInstances(numNodesMap, useStaticIP)
          /\ pc' = "createMonitoring"
          /\ UNCHANGED retval
    /\ UNCHANGED <<requestVars, sshVars, deployVars, pureVars, targetVars, addMonitoring, existingMonitoringInstance,
                   monitoringNodeConfig, publicIPMap, loopVars, storeVars, hosts,
                   monitoringHosts, readyVars, bootVars, agentVars, faults>>

CreateMonitoring ==
    /\ pc = "createMonitoring"
    /\ \/ /\ addMonitoring /\ existingMonitoringInstance = NoInstance
          /\ \/ /\ Return("allocation", {})
                /\ UNCHANGED monitoringNodeConfig
             \/ /\ monitoringNodeConfig' =
                       LET id == NewMonitorID(monitoringHostRegion)
                       IN [InstanceIDs |-> <<id>>,
                           PublicIPs |-> IF useStaticIP THEN <<ElasticIP(id)>> ELSE <<>>,
                           APIInstanceIDs |-> <<>>]
                /\ pc' = "monitoringIP"
                /\ UNCHANGED retval
          /\ UNCHANGED <<addMonitoring, monitoringHostRegion>>
       \/ /\ existingMonitoringInstance # NoInstance
          /\ addMonitoring' = TRUE
          /\ \/ /\ Return("allocation", {})
                /\ UNCHANGED <<monitoringNodeConfig, monitoringHostRegion>>
             \/ /\ monitoringNodeConfig' = getNodeCloudConfig(existingMonitoringInstance)
                /\ monitoringHostRegion' = existingMonitoringInstance[1]
                /\ pc' = "monitoringIP"
                /\ UNCHANGED retval
       \/ /\ ~addMonitoring /\ existingMonitoringInstance = NoInstance
          /\ pc' = "monitoringIP"
          /\ UNCHANGED <<retval, addMonitoring, monitoringNodeConfig, monitoringHostRegion>>
    /\ UNCHANGED <<requestVars, sshVars, deployVars, pureVars, targetVars, existingMonitoringInstance, cloudConfigMap, publicIPMap,
                   loopVars, storeVars, hosts, monitoringHosts, readyVars, bootVars,
                   agentVars, faults>>

MonitoringIP ==
    /\ pc = "monitoringIP"
    /\ \/ /\ ~useStaticIP /\ addMonitoring
          /\ \/ /\ Return("allocation", {})
                /\ UNCHANGED <<monitoringNodeConfig, regionsLeft>>
             \/ /\ monitoringNodeConfig' =
                       [monitoringNodeConfig EXCEPT
                            !.PublicIPs = <<LookupIP(monitoringNodeConfig.InstanceIDs[1])>>]
                /\ pc' = "regionLoop"
                /\ regionsLeft' = DOMAIN numNodesMap
                /\ UNCHANGED retval
       \/ /\ ~(~useStaticIP /\ addMonitoring)
          /\ pc' = "regionLoop"
          /\ regionsLeft' = DOMAIN numNodesMap
          /\ UNCHANGED <<retval, monitoringNodeConfig>>
    /\ UNCHANGED <<requestVars, sshVars, deployVars, pureVars, targetVars, addMonitoring, existingMonitoringInstance,
                   monitoringHostRegion, cloudConfigMap, publicIPMap, curRegion, idx,
                   storeVars, hosts, monitoringHosts, readyVars, bootVars, agentVars, faults>>

\* the API-node subset of a region: the trailing numAPI instance identifiers
APIInstanceIDsOf(instanceIDs, numAPI) ==
    SplitSliceAt(instanceIDs, Len(instanceIDs) - numAPI)[2]

\* a loop that notes a provider error of an iteration and goes on to the next
RegionLoop_IgnoreError ==
    /\ pc = "regionLoop"
    /\ regionsLeft # {}
    /\ \E region \in regionsLeft :
          /\ retval' = [kind |-> "allocation", hosts |-> {}]
          /\ regionsLeft' = regionsLeft \ {region}
    /\ UNCHANGED <<pc, publicIPMap, cloudConfigMap, requestVars, sshVars, deployVars, pureVars, targetVars, addMonitoring,
                   existingMonitoringInstance, monitoringHostRegion, monitoringNodeConfig,
                   curRegion, idx, storeVars, hosts, monitoringHosts, readyVars, bootVars,
                   agentVars, faults>>

\* a loop that asks the provider for the addresses whatever the static-IP flag
RegionLoop_AlwaysLookup ==
    /\ pc = "regionLoop"
    /\ regionsLeft # {}
    /\ \E region \in regionsLeft :
          LET currentRegionConfig == cloudConfigMap[region]
              ids == currentRegionConfig.InstanceIDs
          IN \/ /\ Return("allocation", {})
                /\ UNCHANGED <<publicIPMap, cloudConfigMap, regionsLeft>>
             \/ /\ publicIPMap' = [k \in Range(ids) |-> LookupIP(k)] @@ publicIPMap
                /\ cloudConfigMap' =
                       [cloudConfigMap EXCEPT ![region].APIInstanceIDs =
                            APIInstanceIDsOf(ids, numNodesMap[region].numAPI)]
                /\ regionsLeft' = regionsLeft \ {region}
                /\ UNCHANGED <<pc, retval>>
    /\ UNCHANGED <<requestVars, sshVars, deployVars, pureVars, targetVars, addMonitoring, existingMonitoringInstance,
                   monitoringHostRegion, monitoringNodeConfig, curRegion, idx, storeVars,
                   hosts, monitoringHosts, readyVars, bootVars, agentVars, faults>>

\* one iteration of `for region, numNodes := range numNodesMap`
RegionLoop ==
    /\ pc = "regionLoop"
    /\ regionsLeft # {}
    /\ \E region \in regionsLeft :
          LET currentRegionConfig == cloudConfigMap[region]
              ids == currentRegionConfig.InstanceIDs
          IN \/ /\ Return("allocation", {})
                /\ UNCHANGED <<publicIPMap, cloudConfigMap, regionsLeft>>
             \/ /\ publicIPMap' =
                       [k \in Range(ids) |->
                           IF useStaticIP
                           THEN currentRegionConfig.PublicIPs[CHOOSE i \in DOMAIN ids : ids[i] = k]
                           ELSE LookupIP(k)] @@ publicIPMap
                /\ cloudConfigMap' =
                       [cloudConfigMap EXCEPT ![region].APIInstanceIDs =
                            APIInstanceIDsOf(ids, numNodesMap[region].numAPI)]
                /\ regionsLeft' = regionsLeft \ {region}
                /\ UNCHANGED <<pc, retval>>
    /\ UNCHANGED <<requestVars, sshVars, deployVars, pureVars, targetVars, addMonitoring, existingMonitoringInstance,
                   monitoringHostRegion, monitoringNodeConfig, curRegion, idx, storeVars,
                   hosts, monitoringHosts, readyVars, bootVars, agentVars, faults>>

RegionLoopEnd ==
    /\ pc = "regionLoop"
    /\ regionsLeft = {}
    /\ pc' = "createClusterNodeConfig"
    /\ regionsLeft' = DOMAIN cloudConfigMap
    /\ curRegion' = ""
    /\ idx' = 0
    /\ UNCHANGED <<retval, requestVars, sshVars, deployVars, pureVars, targetVars, addMonitoring, allocVars, storeVars, hosts,
                   monitoringHosts, readyVars, bootVars, agentVars, faults>>

(***************************************************************************)
(* CreateClusterNodeConfig: the writes to the Cluster Topology Store.      *)
(***************************************************************************)
\* `for region, cloudConfig := range cloudConfigMap`: enter the next region
CCNCNextRegion ==
    /\ pc = "createClusterNodeConfig"
    /\ curRegion = ""
    /\ regionsLeft # {}
    /\ \E region \in regionsLeft :
          /\ curRegion' = region
          /\ regionsLeft' = regionsLeft \ {region}
    /\ idx' = 1
    /\ UNCHANGED <<pc, retval, requestVars, sshVars, deployVars, pureVars, targetVars, addMonitoring, allocVars, storeVars, hosts,
                   monitoringHosts, readyVars, bootVars, agentVars, faults>>

\* `for i := range cloudConfig.InstanceIDs`: record instance i of the region
CCNCAddNode ==
    /\ pc = "createClusterNodeConfig"
    /\ curRegion # ""
    /\ idx <= Len(cloudConfigMap[curRegion].InstanceIDs)
    /\ LET cloudConfig == cloudConfigMap[curRegion]
           id == cloudConfig.InstanceIDs[idx]
       IN \/ /\ Return("store", {})
             /\ UNCHANGED <<clustersConfig, idx>>
          \/ /\ clustersConfig' =
                    addNodeToClustersConfig(clustersConfig, network, id, ClusterName,
                                            Contains(cloudConfig.APIInstanceIDs, id), FALSE)
             /\ idx' = idx + 1
             /\ UNCHANGED <<pc, retval>>
    /\ UNCHANGED keyPairs
    /\ UNCHANGED <<requestVars, sshVars, deployVars, pureVars, targetVars, addMonitoring, allocVars, inventory, monitoringInventory,
                   regionsLeft, curRegion, hosts, monitoringHosts, readyVars, bootVars,
                   agentVars, faults>>

\* a call that passes the two flags of addNodeToClustersConfig in the wrong order
saveExternalHostConfig_FlagsSwapped(cfg, externalHostConfig, clusterName) ==
    addNodeToClustersConfig(cfg, "undefined", externalHostConfig.InstanceIDs[1],
                            clusterName, TRUE, FALSE)

\* saveExternalHostConfig: record the monitoring host
saveExternalHostConfig(cfg, externalHostConfig, clusterName) ==
    addNodeToClustersConfig(cfg, "undefined", externalHostConfig.InstanceIDs[1],
                            clusterName, FALSE, TRUE)

\* the end of a region's iteration: `if addMonitoring { saveExternalHostConfig }`
CCNCEndRegion ==
    /\ pc = "createClusterNodeConfig"
    /\ curRegion # ""
    /\ idx > Len(cloudConfigMap[curRegion].InstanceIDs)
    /\ \/ /\ addMonitoring
          /\ \/ /\ Return("store", {})
                /\ UNCHANGED <<clustersConfig, keyPairs, curRegion>>
             \/ /\ clustersConfig' =
                       saveExternalHostConfig(clustersConfig, monitoringNodeConfig, ClusterName)
                /\ \/ /\ Return("store", {})
                      /\ UNCHANGED <<keyPairs, curRegion>>
                   \/ /\ keyPairs' = updateKeyPairClustersConfig(keyPairs, monitoringHostRegion)
                      /\ curRegion' = ""
                      /\ UNCHANGED <<pc, retval>>
       \/ /\ ~addMonitoring
          /\ curRegion' = ""
          /\ UNCHANGED <<pc, retval, clustersConfig, keyPairs>>
    /\ UNCHANGED <<requestVars, sshVars, deployVars, pureVars, targetVars, addMonitoring, allocVars, inventory, monitoringInventory,
                   regionsLeft, idx, hosts, monitoringHosts, readyVars, bootVars,
                   agentVars, faults>>

CCNCDone ==
    /\ pc = "createClusterNodeConfig"
    /\ curRegion = ""
    /\ regionsLeft = {}
    /\ pc' = "inventory"
    /\ UNCHANGED <<retval, requestVars, sshVars, deployVars, pureVars, targetVars, addMonitoring, allocVars, loopVars, storeVars,
                   hosts, monitoringHosts, readyVars, bootVars, agentVars, faults>>

(***************************************************************************)
(* Inventory Builder: the inventory files and the host list of the run.    *)
(***************************************************************************)
\* ansible.CreateAnsibleHostInventory: one entry per instance, appended
CreateAnsibleHostInventory(inv, cs, ccm) ==
    LET RECURSIVE Entries(_)
        Entries(S) ==
            IF S = {} THEN <<>>
            ELSE LET r == CHOOSE x \in S : TRUE
                 IN [k \in DOMAIN ccm[r].InstanceIDs |->
                        HostCloudIDToAnsibleID(cs, ccm[r].InstanceIDs[k])] \o Entries(S \ {r})
    IN inv \o Entries(DOMAIN ccm)

\* a host list that keeps every host of the inventory
RunHosts_All(allHosts, ccm) == allHosts

\* the hosts of the inventory whose instance was allocated by this run
RunHosts(allHosts, ccm) ==
    LET InRun(h) == GetCloudID(h) \in GetAllInstanceIDs(ccm)
    IN Filter(allHosts, InRun)

Inventory ==
    /\ pc = "inventory"
    /\ \/ /\ Return("inventory", {})
          /\ UNCHANGED <<inventory, monitoringInventory, monitoringHosts, hosts, idx>>
       \/ /\ inventory' = CreateAnsibleHostInventory(inventory, cloudService, cloudConfigMap)
          /\ monitoringInventory' =
                 IF addMonitoring /\ existingMonitoringInstance = NoInstance
                 THEN monitoringInventory \o
                      <<HostCloudIDToAnsibleID(cloudService, monitoringNodeConfig.InstanceIDs[1])>>
                 ELSE monitoringInventory
          /\ monitoringHosts' = IF addMonitoring THEN monitoringInventory' ELSE <<>>
          /\ hosts' = RunHosts(inventory', cloudConfigMap)
          /\ idx' = 1
          /\ pc' = "waitForHosts"
          /\ UNCHANGED retval
    /\ UNCHANGED <<requestVars, sshVars, deployVars, pureVars, targetVars, addMonitoring, allocVars, clustersConfig, keyPairs, regionsLeft,
                   curRegion, readyVars, bootVars, agentVars, faults>>

(***************************************************************************)
(* Readiness Gate: waitForHosts.                                           *)
(***************************************************************************)
\* the results a remote operation can have, within the fault budget
Outcomes == {Nil} \cup (IF faults < MaxFaults THEN Errs ELSE {})

Inject(e) == faults' = IF e = Nil THEN faults ELSE faults + 1

Log(i, step, e) == stepsRun' = [stepsRun EXCEPT ![i] = Append(@, [step |-> step, res |-> e])]

\* `for _, host := range hosts { createdWaitGroup.Add(1); go func ... }`
WaitDispatch ==
    /\ pc = "waitForHosts"
    /\ idx <= Len(hosts)
    /\ createdWaitGroup' = createdWaitGroup + 1
    /\ rpc' = [i \in 1..idx |-> IF i = idx THEN "WaitForSSHShell" ELSE rpc[i]]
    /\ stepsRun' = [i \in 1..idx |-> IF i = idx THEN <<>> ELSE stepsRun[i]]
    /\ idx' = idx + 1
    /\ UNCHANGED <<pc, retval, requestVars, sshVars, deployVars, pureVars, targetVars, addMonitoring, allocVars, storeVars, regionsLeft,
                   curRegion, hosts, monitoringHosts, hostErrors, wg, wgResults, bpc,
                   agentVars, faults>>

\* a readiness goroutine that records the key pair of its host in the store
WaitForSSHShell_UpdatesKeyPair(i) ==
    /\ i \in DOMAIN rpc
    /\ rpc[i] = "WaitForSSHShell"
    /\ \E e \in Outcomes :
          /\ Inject(e)
          /\ Log(i, "WaitForSSHShell", e)
          /\ hostErrors' = RecordOutcome(hostErrors, GoroutineHost(hosts, i), e)
    /\ rpc' = [rpc EXCEPT ![i] = "done"]
    /\ createdWaitGroup' = createdWaitGroup - 1
    /\ keyPairs' = updateKeyPairClustersConfig(keyPairs, hosts[i][2])
    /\ UNCHANGED <<pc, retval, requestVars, sshVars, deployVars, pureVars, targetVars, addMonitoring, allocVars,
                   clustersConfig, inventory, monitoringInventory, loopVars,
                   hosts, monitoringHosts, wg, wgResults, bpc, agentVars>>

\* the goroutine of waitForHosts for host i
WaitForSSHShell(i) ==
    /\ i \in DOMAIN rpc
    /\ rpc[i] = "WaitForSSHShell"
    /\ \E e \in Outcomes :
          /\ Inject(e)
          /\ Log(i, "WaitForSSHShell", e)
          /\ hostErrors' = RecordOutcome(hostErrors, GoroutineHost(hosts, i), e)
    /\ rpc' = [rpc EXCEPT ![i] = "done"]
    /\ createdWaitGroup' = createdWaitGroup - 1
    /\ UNCHANGED <<pc, retval, requestVars, sshVars, deployVars, pureVars, targetVars, addMonitoring, allocVars, storeVars, loopVars,
                   hosts, monitoringHosts, wg, wgResults, bpc, agentVars>>

\* createdWaitGroup.Wait(), then `return &hostErrors`
WaitJoin ==
    /\ pc = "waitForHosts"
    /\ idx > Len(hosts)
    /\ Wait(createdWaitGroup)
    /\ pc' = "readyCheck"
    /\ UNCHANGED <<retval, requestVars, sshVars, deployVars, pureVars, targetVars, addMonitoring, allocVars, storeVars, loopVars,
                   hosts, monitoringHosts, readyVars, bootVars, agentVars, faults>>

\* `if failedHosts.Len() > 0 { return fmt.Errorf(... failedHosts.GetNodeList()) }`
ReadyCheck ==
    /\ pc = "readyCheck"
    /\ IF ReadinessFailed(hostErrors)
       THEN /\ Return("provision", GetNodeList(hostErrors))
            /\ UNCHANGED idx
       ELSE /\ pc' = "bootstrap"
            /\ idx' = 1
            /\ UNCHANGED retval
    /\ UNCHANGED <<requestVars, sshVars, deployVars, pureVars, targetVars, addMonitoring, allocVars, storeVars, regionsLeft, curRegion,
                   hosts, monitoringHosts, readyVars, bootVars, agentVars, faults>>

(***************************************************************************)
(* Bootstrap Pipeline Engine: the fan-out of createNodes.                  *)
(***************************************************************************)
\* a pipeline that installs the build toolchain before the metrics agent
NextBootStep_BuildEnvFirst(step, mon) ==
    CASE step = "Connect" -> "provideStakingCertAndKey"
      [] step = "provideStakingCertAndKey" -> "RunSSHSetupNode"
      [] step = "RunSSHSetupNode" -> "RunSSHSetupBuildEnv"
      [] step = "RunSSHSetupBuildEnv" ->
             IF mon THEN "RunSSHSetupMachineMetrics" ELSE "RunSSHSetupCLIFromSource"
      [] step = "RunSSHSetupMachineMetrics" -> "RunSSHSetupCLIFromSource"
      [] step = "RunSSHSetupCLIFromSource" -> "done"

\* the step the goroutine runs after `step` succeeded ("done": none is left)
NextBootStep(step, mon) ==
    CASE step = "Connect" -> "provideStakingCertAndKey"
      [] step = "provideStakingCertAndKey" -> "RunSSHSetupNode"
      [] step = "RunSSHSetupNode" ->
             IF mon THEN "RunSSHSetupMachineMetrics" ELSE "RunSSHSetupBuildEnv"
      [] step = "RunSSHSetupMachineMetrics" -> "RunSSHSetupBuildEnv"
      [] step = "RunSSHSetupBuildEnv" -> "RunSSHSetupCLIFromSource"
      [] step = "RunSSHSetupCLIFromSource" -> "done"

\* `for _, host := range hosts { wg.Add(1); go func ... }`
BootDispatch ==
    /\ pc = "bootstrap"
    /\ idx <= Len(hosts)
    /\ wg' = wg + 1
    /\ bpc' = [i \in 1..idx |-> IF i = idx THEN "Connect" ELSE bpc[i]]
    /\ stepsRun' = [i \in 1..idx |-> IF i = idx THEN <<>> ELSE stepsRun[i]]
    /\ idx' = idx + 1
    /\ UNCHANGED <<pc, retval, requestVars, sshVars, deployVars, pureVars, targetVars, addMonitoring, allocVars, storeVars, regionsLeft,
                   curRegion, hosts, monitoringHosts, readyVars, wgResults,
                   agentVars, faults>>

\* a fan-out in which the first failure cancels every sibling goroutine
BootStep_CancelSiblings(i) ==
    /\ i \in DOMAIN bpc
    /\ bpc[i] # "done"
    /\ \E e \in Outcomes :
          /\ Inject(e)
          /\ Log(i, bpc[i], e)
          /\ wgResults' = RecordOutcome(wgResults, GoroutineHost(hosts, i), e)
          /\ bpc' = IF e # Nil THEN [j \in DOMAIN bpc |-> "done"]
                    ELSE [bpc EXCEPT ![i] = NextBootStep(bpc[i], addMonitoring)]
    /\ wg' = Cardinality({j \in DOMAIN bpc' : bpc'[j] # "done"}) + (Len(hosts) + 1 - idx)
    /\ UNCHANGED <<pc, retval, requestVars, sshVars, deployVars, pureVars, targetVars, addMonitoring, allocVars, storeVars, loopVars,
                   hosts, monitoringHosts, readyVars, agentVars>>

\* a goroutine that returns after a failed step without wg.Done()
BootStep_NoDoneOnFailure(i) ==
    /\ i \in DOMAIN bpc
    /\ bpc[i] # "done"
    /\ \E e \in Outcomes :
          /\ Inject(e)
          /\ Log(i, bpc[i], e)
          /\ wgResults' = RecordOutcome(wgResults, GoroutineHost(hosts, i), e)
          /\ bpc' = [bpc EXCEPT ![i] = IF e # Nil THEN "done"
                                       ELSE NextBootStep(bpc[i], addMonitoring)]
          /\ wg' = IF bpc'[i] = "done" /\ e = Nil THEN wg - 1 ELSE wg
    /\ UNCHANGED <<pc, retval, requestVars, sshVars, deployVars, pureVars, targetVars, addMonitoring, allocVars, storeVars, loopVars,
                   hosts, monitoringHosts, readyVars, agentVars>>

\* one step of the bootstrap goroutine of host i
BootStep(i) ==
    /\ i \in DOMAIN bpc
    /\ bpc[i] # "done"
    /\ \E e \in Outcomes :
          /\ Inject(e)
          /\ Log(i, bpc[i], e)
          /\ wgResults' = RecordOutcome(wgResults, GoroutineHost(hosts, i), e)
          /\ bpc' = [bpc EXCEPT ![i] = IF e # Nil THEN "done"
                                       ELSE NextBootStep(bpc[i], addMonitoring)]
    /\ wg' = IF bpc'[i] = "done" THEN wg - 1 ELSE wg
    /\ UNCHANGED <<pc, retval, requestVars, sshVars, deployVars, pureVars, targetVars, addMonitoring, allocVars, storeVars, loopVars,
                   hosts, monitoringHosts, readyVars, agentVars>>

\* a main goroutine that goes on to the monitoring phase without wg.Wait()
BootJoin_NoWait ==
    /\ pc = "bootstrap"
    /\ idx > Len(hosts)
    /\ pc' = IF addMonitoring THEN "monitoring" ELSE "setupDevnet"
    /\ UNCHANGED <<retval, requestVars, sshVars, deployVars, pureVars, targetVars, addMonitoring, allocVars, storeVars, loopVars,
                   hosts, monitoringHosts, readyVars, bootVars, agentVars, faults>>

\* wg.Wait() and utils.MapWithError(..., HostCloudIDToAnsibleID)
BootJoin ==
    /\ pc = "bootstrap"
    /\ idx > Len(hosts)
    /\ Wait(wg)
    /\ pc' = IF addMonitoring THEN "monitoring" ELSE "setupDevnet"
    /\ UNCHANGED <<retval, requestVars, sshVars, deployVars, pureVars, targetVars, addMonitoring, allocVars, storeVars, loopVars,
                   hosts, monitoringHosts, readyVars, bootVars, agentVars, faults>>

(***************************************************************************)
(* Monitoring Coordinator.                                                 *)
(***************************************************************************)
\* the steps run on the monitoring host, in order
MonitoringSteps(existing) ==
    IF existing # NoInstance
    THEN <<"RunSSHUpdatePrometheusConfig", "CreateAnsibleNodeConfigDir">>
    ELSE <<"SetupMonitoringEnv", "RunSSHCopyMonitoringDashboards",
           "RunSSHSetupSeparateMonitoring", "RunSSHUpdatePrometheusConfig",
           "CreateAnsibleNodeConfigDir">>

\* the address the inventory file holds for a host
InventoryIP(h, ipMap) ==
    IF GetCloudID(h) \in DOMAIN ipMap THEN ipMap[GetCloudID(h)] ELSE LookupIP(GetCloudID(h))

\* the scrape targets of one port: one per host of the cluster inventory
PortTargets(inventoryHosts, ipMap, port) ==
    [k \in DOMAIN inventoryHosts |-> Target(InventoryIP(inventoryHosts[k], ipMap), port)]

\* `if len(monitoringHosts) != 1 { return error }`, then drop the monitoring host
\* and build the scrape targets from the inventory of the cluster
MonitoringStart ==
    /\ pc = "monitoring"
    /\ IF Len(monitoringHosts) # 1
       THEN /\ Return("monitoring", {})
            /\ UNCHANGED <<hosts, idx, avalancheGoPorts, machinePorts>>
       ELSE /\ hosts' = LET NotMonitor(h) == h # monitoringHosts[1]
                        IN Filter(hosts, NotMonitor)
            /\ \/ /\ Return("monitoring", {})
                  /\ UNCHANGED <<idx, avalancheGoPorts, machinePorts>>
               \/ /\ avalancheGoPorts' =
                         PortTargets(inventory, publicIPMap, "AvalanchegoAPIPort")
                  /\ machinePorts' =
                         PortTargets(inventory, publicIPMap, "AvalanchegoMachineMetricsPort")
                  /\ pc' = "monitoringStep"
                  /\ idx' = 1
                  /\ UNCHANGED retval
    /\ UNCHANGED <<requestVars, sshVars, deployVars, pureVars, addMonitoring, allocVars, storeVars, regionsLeft, curRegion,
                   monitoringHosts, readyVars, bootVars, agentVars, faults, prometheusConfig>>

\* ssh.RunSSHUpdatePrometheusConfig: the monitoring host takes the targets given
RunSSHUpdatePrometheusConfig(cfg, goPorts, mPorts) ==
    [avalancheGo |-> goPorts, machine |-> mPorts]

\* one step on the monitoring host; a failure returns it from createNodes
MonitoringStep ==
    /\ pc = "monitoringStep"
    /\ idx <= Len(MonitoringSteps(existingMonitoringInstance))
    /\ \/ /\ Return("monitoring", {})
          /\ UNCHANGED <<idx, prometheusConfig>>
       \/ /\ idx' = idx + 1
          /\ prometheusConfig' =
                 IF MonitoringSteps(existingMonitoringInstance)[idx] = "RunSSHUpdatePrometheusConfig"
                 THEN RunSSHUpdatePrometheusConfig(prometheusConfig, avalancheGoPorts, machinePorts)
                 ELSE prometheusConfig
          /\ UNCHANGED <<pc, retval>>
    /\ UNCHANGED <<requestVars, sshVars, deployVars, pureVars, addMonitoring, allocVars, storeVars, regionsLeft, curRegion,
                   hosts, monitoringHosts, readyVars, bootVars, agentVars, faults,
                   avalancheGoPorts, machinePorts>>

MonitoringStepsDone ==
    /\ pc = "monitoringStep"
    /\ idx > Len(MonitoringSteps(existingMonitoringInstance))
    /\ pc' = "agentConfig"
    /\ idx' = 1
    /\ UNCHANGED <<retval, requestVars, sshVars, deployVars, pureVars, targetVars, addMonitoring, allocVars, storeVars, regionsLeft,
                   curRegion, hosts, monitoringHosts, readyVars, bootVars, agentVars, faults>>

\* `for _, host := range hosts { wg.Add(1); go func ... }` of the agent configuration
AgentDispatch ==
    /\ pc = "agentConfig"
    /\ idx <= Len(hosts)
    /\ monWg' = monWg + 1
    /\ apc' = [i \in 1..idx |-> IF i = idx THEN "RunSSHDownloadNodeMonitoringConfig"
                                ELSE apc[i]]
    /\ stepsRun' = [i \in 1..idx |-> IF i = idx THEN <<>> ELSE stepsRun[i]]
    /\ idx' = idx + 1
    /\ UNCHANGED <<pc, retval, requestVars, sshVars, deployVars, pureVars, targetVars, addMonitoring, allocVars, storeVars, regionsLeft,
                   curRegion, hosts, monitoringHosts, readyVars, wg, wgResults, bpc,
                   monWgResults, err, faults>>

\* the step of the agent configuration goroutine after `step` succeeded
NextAgentStep(step) ==
    CASE step = "RunSSHDownloadNodeMonitoringConfig" -> "addHTTPHostToConfigFile"
      [] step = "checkErr" -> "RunSSHUploadNodeMonitoringConfig"
      [] step = "RunSSHUploadNodeMonitoringConfig" -> "RunSSHRestartNode"
      [] step = "RunSSHRestartNode" -> "done"

\* a step of the goroutine of host i whose error is a variable of the goroutine;
\* after the restart the goroutine removes its local directory and returns
\* whatever os.RemoveAll gives
AgentStep(i) ==
    /\ i \in DOMAIN apc
    /\ apc[i] \in {"RunSSHDownloadNodeMonitoringConfig", "RunSSHUploadNodeMonitoringConfig",
                   "RunSSHRestartNode"}
    /\ \E e \in Outcomes :
          /\ Inject(e)
          /\ Log(i, apc[i], e)
          /\ monWgResults' = RecordOutcome(monWgResults, GoroutineHost(hosts, i), e)
          /\ apc' = [apc EXCEPT ![i] = IF e # Nil THEN "done" ELSE NextAgentStep(apc[i])]
    /\ monWg' = IF apc'[i] = "done" THEN monWg - 1 ELSE monWg
    /\ UNCHANGED <<pc, retval, requestVars, sshVars, deployVars, pureVars, targetVars, addMonitoring, allocVars, storeVars, loopVars,
                   hosts, monitoringHosts, readyVars, wg, wgResults, bpc, err>>

\* `err = addHTTPHostToConfigFile(...)`: the result goes to the err of createNodes
AgentRewrite(i) ==
    /\ i \in DOMAIN apc
    /\ apc[i] = "addHTTPHostToConfigFile"
    /\ \E e \in Outcomes :
          /\ Inject(e)
          /\ Log(i, apc[i], e)
          /\ err' = e
    /\ apc' = [apc EXCEPT ![i] = "checkErr"]
    /\ UNCHANGED <<pc, retval, requestVars, sshVars, deployVars, pureVars, targetVars, addMonitoring, allocVars, storeVars, loopVars,
                   hosts, monitoringHosts, readyVars, wg, wgResults, bpc, monWg,
                   monWgResults>>

\* `; err != nil { nodeResults.AddResult(host.NodeID, nil, err); return }`
AgentCheckErr(i) ==
    /\ i \in DOMAIN apc
    /\ apc[i] = "checkErr"
    /\ monWgResults' = RecordOutcome(monWgResults, GoroutineHost(hosts, i), err)
    /\ apc' = [apc EXCEPT ![i] = IF err # Nil THEN "done" ELSE NextAgentStep(apc[i])]
    /\ monWg' = IF apc'[i] = "done" THEN monWg - 1 ELSE monWg
    /\ UNCHANGED <<pc, retval, requestVars, sshVars, deployVars, pureVars, targetVars, addMonitoring, allocVars, storeVars, loopVars,
                   hosts, monitoringHosts, readyVars, bootVars, err, faults>>

\* the first host of `hosts` the agent configuration recorded a failure for
FirstFailed(hs, nr) ==
    IF \E i \in DOMAIN hs : HasNodeIDWithError(nr, hs[i])
    THEN {hs[CHOOSE i \in DOMAIN hs :
                /\ HasNodeIDWithError(nr, hs[i])
                /\ \A j \in DOMAIN hs : HasNodeIDWithError(nr, hs[j]) => i <= j]}
    ELSE {}

\* wg.Wait() of the agent configuration
AgentJoin ==
    /\ pc = "agentConfig"
    /\ idx > Len(hosts)
    /\ Wait(monWg)
    /\ pc' = "agentCheck"
    /\ UNCHANGED <<retval, requestVars, sshVars, deployVars, pureVars, targetVars, addMonitoring, allocVars, storeVars, loopVars, hosts,
                   monitoringHosts, readyVars, bootVars, agentVars, faults>>

\* `for _, node := range hosts { if wgResults.HasNodeIDWithError(node.NodeID) { return } }`
AgentCheck ==
    /\ pc = "agentCheck"
    /\ IF FirstFailed(hosts, monWgResults) # {}
       THEN Return("agent", FirstFailed(hosts, monWgResults))
       ELSE /\ pc' = "setupDevnet"
            /\ UNCHANGED retval
    /\ UNCHANGED <<requestVars, sshVars, deployVars, pureVars, targetVars, addMonitoring, allocVars, storeVars, loopVars, hosts,
                   monitoringHosts, readyVars, bootVars, agentVars, faults>>

(***************************************************************************)
(* The end of createNodes.                                                 *)
(***************************************************************************)
\* `if network.Kind == models.Devnet { setupDevnet(...) }`
SetupDevnet ==
    /\ pc = "setupDevnet"
    /\ \/ /\ network = "devnet"
          /\ Return("devnet", {})
       \/ /\ pc' = "final"
          /\ UNCHANGED retval
    /\ UNCHANGED <<requestVars, sshVars, deployVars, pureVars, targetVars, addMonitoring, allocVars, storeVars, loopVars, hosts,
                   monitoringHosts, readyVars, bootVars, agentVars, faults>>

\* an end of createNodes that reports success without the final check
Final_IgnoreErrors ==
    /\ pc = "final"
    /\ Return("ok", {})
    /\ UNCHANGED <<requestVars, sshVars, deployVars, pureVars, targetVars, addMonitoring, allocVars, storeVars, loopVars, hosts,
                   monitoringHosts, readyVars, bootVars, agentVars, faults>>

\* `if wgResults.HasErrors() { return error } else { printResults; return nil }`
Final ==
    /\ pc = "final"
    /\ IF HasErrors(wgResults)
       THEN Return("deploy", DOMAIN GetErrorHostMap(wgResults))
       ELSE Return("ok", {})
    /\ UNCHANGED <<requestVars, sshVars, deployVars, pureVars, targetVars, addMonitoring, allocVars, storeVars, loopVars, hosts,
                   monitoringHosts, readyVars, bootVars, agentVars, faults>>

Next ==
    \/ GetExisting
    \/ CreateInstances
    \/ CreateMonitoring
    \/ MonitoringIP
    \/ RegionLoop
    \/ RegionLoopEnd
    \/ CCNCNextRegion
    \/ CCNCAddNode
    \/ CCNCEndRegion
    \/ CCNCDone
    \/ Inventory
    \/ WaitDispatch
    \/ \E i \in 1..MaxHosts : WaitForSSHShell(i)
    \/ WaitJoin
    \/ ReadyCheck
    \/ BootDispatch
    \/ \E i \in 1..MaxHosts : BootStep(i)
    \/ BootJoin
    \/ MonitoringStart
    \/ MonitoringStep
    \/ MonitoringStepsDone
    \/ AgentDispatch
    \/ \E i \in 1..MaxHosts : AgentStep(i)
    \/ \E i \in 1..MaxHosts : AgentRewrite(i)
    \/ \E i \in 1..MaxHosts : AgentCheckErr(i)
    \/ AgentJoin
    \/ AgentCheck
    \/ SetupDevnet
    \/ Final

Spec == Init /\ [][Next]_vars

\* the steps of the main goroutine of createNodes
MainGoroutine ==
    \/ GetExisting \/ CreateInstances \/ CreateMonitoring \/ MonitoringIP
    \/ RegionLoop \/ RegionLoopEnd
    \/ CCNCNextRegion \/ CCNCAddNode \/ CCNCEndRegion \/ CCNCDone
    \/ Inventory
    \/ WaitDispatch \/ WaitJoin \/ ReadyCheck
    \/ BootDispatch \/ BootJoin
    \/ MonitoringStart \/ MonitoringStep \/ MonitoringStepsDone
    \/ AgentDispatch \/ AgentJoin \/ AgentCheck
    \/ SetupDevnet \/ Final

\* the steps of the goroutines started for host i
Worker(i) ==
    \/ WaitForSSHShell(i)
    \/ BootStep(i)
    \/ AgentStep(i) \/ AgentRewrite(i) \/ AgentCheckErr(i)

\* the run under a fair scheduler: a goroutine that can take a step takes it,
\* and every remote operation returns (it succeeds, fails or times out)
SpecLive ==
    /\ Init
    /\ [][Next]_vars
    /\ WF_vars(MainGoroutine)
    /\ \A i \in 1..MaxHosts : WF_vars(Worker(i))

(***************************************************************************)
(* The allocation phase on its own, the E2E docker branch included: the    *)
(* run of createNodes up to the host list, for requests of more instances. *)
(***************************************************************************)
\* most instances a request of the allocation phase asks for
MaxAllocHosts == 3

AllocNumNodes == [numValidators : 1..MaxAllocHosts, numAPI : 0..MaxAllocHosts]

\* the node counts the flags --region, --num-validators and --num-apis can give
AllocRequests(net) ==
    { nnm \in UNION {[R -> AllocNumNodes] : R \in RegionChoices} :
        /\ TotalNodes(nnm) <= MaxAllocHosts
        /\ (net # "devnet" => \A r \in DOMAIN nnm : nnm[r].numAPI = 0) }

InitAlloc ==
    /\ pc = "start"
    /\ PureIdle
    /\ InitRest
    /\ numNodesMap \in AllocRequests(network)
    /\ SSHIdle
    /\ DeployIdle

\* utils.GenerateDockerHostIDs and utils.GenerateDockerHostIPs
GenerateDockerHostIDs(n) == NewInstanceIDs("docker", n)
GenerateDockerHostIP(k) == <<"192.168.223", k>>

\* `if utils.IsE2E() {...}`: every requested node becomes a container of the one
\* region "docker"; the API subset is the trailing numAPINodes[0] identifiers
E2EAllocate ==
    /\ pc = "createInstances"
    /\ \/ /\ Return("allocation", {})
          /\ UNCHANGED <<cloudConfigMap, publicIPMap, monitoringNodeConfig, loopVars>>
       \/ \E first \in DOMAIN numNodesMap :
             LET dockerNumNodes == TotalNodes(numNodesMap)
                 dockerHostIDs == GenerateDockerHostIDs(dockerNumNodes)
                 numAPINodes0 == numNodesMap[first].numAPI
                 apiNodeIDs == IF network = "devnet"
                               THEN SplitSliceAt(dockerHostIDs, Len(dockerHostIDs) - numAPINodes0)[2]
                               ELSE <<>>
             IN /\ cloudConfigMap' =
                       ("docker" :> [InstanceIDs |-> dockerHostIDs,
                                     PublicIPs |-> [k \in 1..dockerNumNodes |->
                                                       GenerateDockerHostIP(k)],
                                     APIInstanceIDs |-> apiNodeIDs])
                /\ publicIPMap' = [id \in Range(dockerHostIDs) |->
                                      GenerateDockerHostIP(id[2])]
                /\ monitoringNodeConfig' =
                       IF addMonitoring
                       THEN [InstanceIDs |-> <<NewMonitorID("docker")>>,
                             PublicIPs |-> <<GenerateDockerHostIP(dockerNumNodes + 1)>>,
                             APIInstanceIDs |-> <<>>]
                       ELSE monitoringNodeConfig
                /\ pc' = "createClusterNodeConfig"
                /\ regionsLeft' = {"docker"}
                /\ curRegion' = ""
                /\ idx' = 0
                /\ UNCHANGED retval
    /\ UNCHANGED <<requestVars, sshVars, deployVars, pureVars, targetVars, addMonitoring, existingMonitoringInstance,
                   monitoringHostRegion, storeVars, hosts, monitoringHosts, readyVars,
                   bootVars, agentVars, faults>>

NextAlloc ==
    \/ GetExisting
    \/ CreateInstances
    \/ E2EAllocate
    \/ CreateMonitoring
    \/ MonitoringIP
    \/ RegionLoop
    \/ RegionLoopEnd
    \/ CCNCNextRegion
    \/ CCNCAddNode
    \/ CCNCEndRegion
    \/ CCNCDone
    \/ Inventory

SpecAlloc == InitAlloc /\ [][NextAlloc]_vars

(***************************************************************************)
(* RunOverSSH (package ssh): the tasks of a script are run one after the   *)
(* other on a host; a task whose first attempt dies with the SSH handshake *)
(* EOF error is run a second time after a pause.                           *)
(***************************************************************************)
MaxTasks == 3

TaskTitles == {"#name:a", "#name:b"}

\* splitScript: the first title is the empty one of the script's preamble,
\* each further title is a separator line
ScriptTitles ==
    UNION {{<<"">> \o t : t \in [1..k -> TaskTitles]} : k \in 0..MaxTasks}

InitSSH ==
    /\ pc = "start"
    /\ PureIdle
    /\ InitRest
    /\ numNodesMap = EmptyMap
    /\ network = "fuji"
    /\ cloudService = "aws"
    /\ ~useStaticIP
    /\ ~addMonitoring
    /\ clustersConfig = EmptyMap
    /\ taskTitle \in ScriptTitles
    /\ taskN = 0
    /\ sshPc = "prepare"
    /\ sshErr = Nil
    /\ sshRet = Nil
    /\ commands = <<>>
    /\ DeployIdle

isSSHHandshakeEOFError_AnyError(e) ==
    e # Nil

isSSHHandshakeEOFError(e) ==
    e # Nil /\ e = "ssh: handshake failed: EOF"

\* script.ReadFile, template parsing and execution, splitScript
RunOverSSHPrepare ==
    /\ sshPc = "prepare"
    /\ \/ /\ sshPc' = "returned"
          /\ sshRet' = "prepare"
       \/ /\ sshPc' = "range"
          /\ UNCHANGED sshRet
    /\ UNCHANGED <<nodeVars, deployVars, pureVars, taskTitle, taskN, sshErr, commands>>

\* for n, task := range tasks, with the skip of an untitled task
RunOverSSHRange ==
    /\ sshPc = "range"
    /\ IF taskN >= Len(taskTitle)
         THEN /\ sshPc' = "returned"
              /\ sshRet' = Nil
              /\ UNCHANGED taskN
         ELSE /\ IF taskTitle[taskN + 1] = ""
                   THEN /\ taskN' = taskN + 1
                        /\ UNCHANGED sshPc
                   ELSE /\ sshPc' = "command"
                        /\ UNCHANGED taskN
              /\ UNCHANGED sshRet
    /\ UNCHANGED <<nodeVars, deployVars, pureVars, taskTitle, sshErr, commands>>

\* the first host.Command of the task
RunOverSSHCommand ==
    /\ sshPc = "command"
    /\ \E e \in {Nil} \cup Errs :
         /\ sshErr' = e
         /\ commands' = Append(commands, [task |-> taskN, afterPause |-> FALSE, err |-> e])
         /\ sshPc' = IF isSSHHandshakeEOFError(e) THEN "sleep" ELSE "check"
    /\ UNCHANGED <<nodeVars, deployVars, pureVars, taskTitle, taskN, sshRet>>

\* time.Sleep and the second host.Command of the task
RunOverSSHRetry ==
    /\ sshPc = "sleep"
    /\ \E e \in {Nil} \cup Errs :
         /\ sshErr' = e
         /\ commands' = Append(commands, [task |-> taskN, afterPause |-> TRUE, err |-> e])
    /\ sshPc' = "check"
    /\ UNCHANGED <<nodeVars, deployVars, pureVars, taskTitle, taskN, sshRet>>

\* if err != nil { return err }
RunOverSSHCheck ==
    /\ sshPc = "check"
    /\ IF sshErr # Nil
         THEN /\ sshPc' = "returned"
              /\ sshRet' = sshErr
              /\ UNCHANGED taskN
         ELSE /\ sshPc' = "range"
              /\ taskN' = taskN + 1
              /\ UNCHANGED sshRet
    /\ UNCHANGED <<nodeVars, deployVars, pureVars, taskTitle, sshErr, commands>>

NextSSH ==
    \/ RunOverSSHPrepare
    \/ RunOverSSHRange
    \/ RunOverSSHCommand
    \/ RunOverSSHRetry
    \/ RunOverSSHCheck

SpecSSH == InitSSH /\ [][NextSSH]_vars

(***************************************************************************)
(* deploySubnet (cmd/subnetcmd/deploy.go), the deploy to a public network: *)
(* the command is run again and again on the sidecar of one subnet.        *)
(***************************************************************************)
\* most invocations of `subnet deploy` in a behaviour
MaxDeploys == 3

DeployNetworks == {"fuji", "mainnet"}

\* createNodes is not running
NodeIdle ==
    /\ InitRest
    /\ numNodesMap = EmptyMap
    /\ network = "fuji"
    /\ cloudService = "aws"
    /\ ~useStaticIP
    /\ ~addMonitoring
    /\ clustersConfig = EmptyMap

InitDeploy ==
    /\ pc = "start"
    /\ PureIdle
    /\ NodeIdle
    /\ SSHIdle
    /\ DeployIdle

\* a value of --subnet-id that ids.FromString rejects
BadID == <<"bad">>

\* the identifier of the next subnet or blockchain created on a network
NewID(kind, created) == <<kind, Cardinality(created) + 1>>

DeployReturn(e) ==
    /\ deployPc' = "returned"
    /\ deployRet' = e

\* the subnet of the sidecar a deploy goes into without creating one
\* (`model.SubnetID != ids.Empty && model.BlockchainID == ids.Empty`)
SubnetToReuse(networks, net) ==
    IF net \in DOMAIN networks
       /\ networks[net].SubnetID # Empty /\ networks[net].BlockchainID = Empty
    THEN networks[net].SubnetID
    ELSE Empty

\* the command starts: flags, network, and the choice between creating a
\* subnet and deploying into an existing one
DeployStart ==
    /\ deployPc \in {"idle", "returned"}
    /\ deploys < MaxDeploys
    /\ deploys' = deploys + 1
    /\ \E net \in DeployNetworks,
          str \in {Empty, BadID} \cup {s.id : s \in chainSubnets} :
          /\ deployNetwork' = net
          /\ subnetIDStr' = str
          /\ blockchainID' = Empty
          /\ isFullySigned' = FALSE
          /\ deployErr' = Nil
          /\ IF str # Empty
             THEN IF str = BadID
                  THEN /\ DeployReturn("invalid id")
                       /\ UNCHANGED <<createSubnet, subnetID>>
                  ELSE /\ subnetID' = str
                       /\ createSubnet' = FALSE
                       /\ deployPc' = "keys"
                       /\ deployRet' = Nil
             ELSE /\ subnetID' = SubnetToReuse(sidecarNetworks, net)
                  /\ createSubnet' = (SubnetToReuse(sidecarNetworks, net) = Empty)
                  /\ deployPc' = "keys"
                  /\ deployRet' = Nil
    /\ UNCHANGED <<nodeVars, sshVars, pureVars, sidecarNetworks, chainSubnets, chainBlockchains,
                   partialTxs>>

\* control keys, threshold and subnet-auth keys: an error, a cancelled prompt
\* (creation only), or the keys of the deploy
DeployKeys ==
    /\ deployPc = "keys"
    /\ \/ DeployReturn("keys")
       \/ createSubnet /\ DeployReturn(Nil)
       \/ /\ deployPc' = "deploySubnet"
          /\ UNCHANGED deployRet
    /\ UNCHANGED <<nodeVars, sshVars, pureVars, deployNetwork, subnetIDStr, createSubnet, subnetID,
                   blockchainID, isFullySigned, deployErr, sidecarNetworks, chainSubnets,
                   chainBlockchains, partialTxs, deploys>>

\* `if createSubnet { subnetID, err = deployer.DeploySubnet(...); GetOwners }`
DeploySubnet ==
    /\ deployPc = "deploySubnet"
    /\ IF createSubnet
       THEN \/ /\ DeployReturn("DeploySubnet")
               /\ UNCHANGED <<subnetID, chainSubnets>>
            \/ LET id == NewID("subnet", chainSubnets)
               IN /\ subnetID' = id
                  /\ chainSubnets' = chainSubnets \cup {[net |-> deployNetwork, id |-> id]}
                  /\ \/ DeployReturn("GetOwners")
                     \/ /\ deployPc' = "deployBlockchain"
                        /\ UNCHANGED deployRet
       ELSE /\ deployPc' = "deployBlockchain"
            /\ UNCHANGED <<deployRet, subnetID, chainSubnets>>
    /\ UNCHANGED <<nodeVars, sshVars, pureVars, deployNetwork, subnetIDStr, createSubnet,
                   blockchainID, isFullySigned, deployErr, sidecarNetworks,
                   chainBlockchains, partialTxs, deploys>>

\* deployer.DeployBlockchain: an error (printed, not returned), a transaction
\* that still lacks signatures, or the blockchain
DeployBlockchain ==
    /\ deployPc = "deployBlockchain"
    /\ \/ /\ deployErr' = "DeployBlockchain"
          /\ isFullySigned' = FALSE
          /\ UNCHANGED <<blockchainID, chainBlockchains>>
       \/ /\ deployErr' = Nil
          /\ isFullySigned' = FALSE
          /\ UNCHANGED <<blockchainID, chainBlockchains>>
       \/ LET id == NewID("blockchain", chainBlockchains)
          IN /\ deployErr' = Nil
             /\ isFullySigned' = TRUE
             /\ blockchainID' = id
             /\ chainBlockchains' = chainBlockchains \cup
                    {[net |-> deployNetwork, subnet |-> subnetID, id |-> id]}
    /\ deployPc' = "record"
    /\ UNCHANGED <<nodeVars, sshVars, pureVars, deployRet, deployNetwork, subnetIDStr, createSubnet,
                   subnetID, sidecarNetworks, chainSubnets, partialTxs, deploys>>

\* app.UpdateSidecarNetworks: the record of the network is replaced
UpdateSidecarNetworks(networks, net, sid, bid) ==
    (net :> [SubnetID |-> sid, BlockchainID |-> bid]) @@ networks

\* PrintDeployResults, SaveNotFullySignedTx when the transaction lacks
\* signatures, and the update of the sidecar, whose result is returned
DeployRecord ==
    /\ deployPc = "record"
    /\ LET savePartialTx == ~isFullySigned /\ deployErr = Nil
       IN \/ /\ DeployReturn("PrintDeployResults")
             /\ UNCHANGED <<partialTxs, sidecarNetworks>>
          \/ /\ savePartialTx
             /\ DeployReturn("SaveNotFullySignedTx")
             /\ UNCHANGED <<partialTxs, sidecarNetworks>>
          \/ /\ partialTxs' = IF savePartialTx
                              THEN partialTxs \cup {[net |-> deployNetwork, subnet |-> subnetID]}
                              ELSE partialTxs
             /\ \/ /\ DeployReturn("UpdateSidecarNetworks")
                   /\ UNCHANGED sidecarNetworks
                \/ /\ sidecarNetworks' =
                          UpdateSidecarNetworks(sidecarNetworks, deployNetwork,
                                                subnetID, blockchainID)
                   /\ DeployReturn(Nil)
    /\ UNCHANGED <<nodeVars, sshVars, pureVars, deployNetwork, subnetIDStr, createSubnet, subnetID,
                   blockchainID, isFullySigned, deployErr, chainSubnets, chainBlockchains,
                   deploys>>

NextDeploy ==
    \/ DeployStart
    \/ DeployKeys
    \/ DeploySubnet
    \/ DeployBlockchain
    \/ DeployRecord

SpecDeploy == InitDeploy /\ [][NextDeploy]_vars

(***************************************************************************)
(* preCreateChecks: the validation of the flags of `node create`, and the  *)
(* head of createNodes that calls it before anything else.                 *)
(***************************************************************************)
MaxFlagLen == 2
MaxCount == 1

AWSDefaultCredential == "default"

ErrMutuallyExclusive == "latest avalanchego released version, latest avalanchego pre-released version, custom avalanchego version and avalanchego version based on given subnet, are mutually exclusive options"
ErrBothClouds == "could not use both AWS and GCP cloud options"
ErrAWSProfile == "could not use AWS profile for non AWS cloud option"
ErrRegions == "regions provided is not consistent with number of nodes provided. Please make sure list of regions is unique"
ErrNumNodes == "number of nodes per region must be greater than 0"
ErrSSHIdentity == "could not use ssh identity without using ssh agent"
ErrSSHAgent == "ssh agent is not available"
ErrAPIDevnet == "API nodes can only be created in Devnet"
ErrAPIRegions == "API nodes and Validator nodes must be deployed to same number of regions"
ErrNumAPINodes == "number of API nodes per region must be greater than 0"

\* flags.EnsureMutuallyExclusive: at most one of the options is set
EnsureMutuallyExclusive(options) ==
    Cardinality({i \in DOMAIN options : options[i]}) <= 1

\* utils.Unique: the distinct elements of a list
Unique(s) == Range(s)

SeqsUpTo(S, n) == UNION {[1..k -> S] : k \in 0..n}

\* the flag values of a run: the version selectors, the cloud options, the
\* region and count lists and --devnet take every value; --aws-profile,
\* --ssh-agent-identity and --use-ssh-agent keep their defaults
FlagValues ==
    [useLatestAvalanchegoReleaseVersion : BOOLEAN,
     useLatestAvalanchegoPreReleaseVersion : BOOLEAN,
     useAvalanchegoVersionFromSubnet : {"", "subnet1"},
     useCustomAvalanchegoVersion : {"", "v1.10.0"},
     useAWS : BOOLEAN, useGCP : BOOLEAN,
     awsProfile : {AWSDefaultCredential},
     cmdLineRegion : SeqsUpTo(Regions, MaxFlagLen),
     numValidatorsNodes : SeqsUpTo(0..MaxCount, MaxFlagLen),
     numAPINodes : SeqsUpTo(0..MaxCount, MaxFlagLen),
     sshIdentity : {""}, useSSHAgent : {FALSE},
     isSSHAgentAvailable : {TRUE},
     createDevnet : BOOLEAN]

preCreateChecks_BothClouds(f) ==
    IF ~EnsureMutuallyExclusive(<<f.useLatestAvalanchegoReleaseVersion,
                                  f.useLatestAvalanchegoPreReleaseVersion,
                                  f.useAvalanchegoVersionFromSubnet # "",
                                  f.useCustomAvalanchegoVersion # "">>)
    THEN ErrMutuallyExclusive
    ELSE IF ~f.useAWS /\ f.awsProfile # AWSDefaultCredential THEN ErrAWSProfile
    ELSE IF Cardinality(Unique(f.cmdLineRegion)) # Len(f.numValidatorsNodes)
    THEN ErrRegions
    ELSE IF /\ Len(f.numValidatorsNodes) > 0
            /\ \E i \in DOMAIN f.numValidatorsNodes : f.numValidatorsNodes[i] <= 0
    THEN ErrNumNodes
    ELSE IF f.sshIdentity # "" /\ ~f.useSSHAgent THEN ErrSSHIdentity
    ELSE IF f.useSSHAgent /\ ~f.isSSHAgentAvailable THEN ErrSSHAgent
    ELSE IF Len(f.numAPINodes) > 0 /\ ~f.createDevnet THEN ErrAPIDevnet
    ELSE IF f.createDevnet /\ Len(f.numAPINodes) # Len(f.numValidatorsNodes)
    THEN ErrAPIRegions
    ELSE IF /\ Len(f.numAPINodes) > 0
            /\ \E i \in DOMAIN f.numValidatorsNodes : f.numValidatorsNodes[i] <= 0
    THEN ErrNumAPINodes
    ELSE Nil

\* preCreateChecks: the first failing check decides the error; the loop
\* under the API-node test ranges over numValidatorsNodes, as in the code
preCreateChecks(f) ==
    IF ~EnsureMutuallyExclusive(<<f.useLatestAvalanchegoReleaseVersion,
                                  f.useLatestAvalanchegoPreReleaseVersion,
                                  f.useAvalanchegoVersionFromSubnet # "",
                                  f.useCustomAvalanchegoVersion # "">>)
    THEN ErrMutuallyExclusive
    ELSE IF f.useAWS /\ f.useGCP THEN ErrBothClouds
    ELSE IF ~f.useAWS /\ f.awsProfile # AWSDefaultCredential THEN ErrAWSProfile
    ELSE IF Cardinality(Unique(f.cmdLineRegion)) # Len(f.numValidatorsNodes)
    THEN ErrRegions
    ELSE IF /\ Len(f.numValidatorsNodes) > 0
            /\ \E i \in DOMAIN f.numValidatorsNodes : f.numValidatorsNodes[i] <= 0
    THEN ErrNumNodes
    ELSE IF f.sshIdentity # "" /\ ~f.useSSHAgent THEN ErrSSHIdentity
    ELSE IF f.useSSHAgent /\ ~f.isSSHAgentAvailable THEN ErrSSHAgent
    ELSE IF Len(f.numAPINodes) > 0 /\ ~f.createDevnet THEN ErrAPIDevnet
    ELSE IF f.createDevnet /\ Len(f.numAPINodes) # Len(f.numValidatorsNodes)
    THEN ErrAPIRegions
    ELSE IF /\ Len(f.numAPINodes) > 0
            /\ \E i \in DOMAIN f.numValidatorsNodes : f.numValidatorsNodes[i] <= 0
    THEN ErrNumAPINodes
    ELSE Nil

InitChecks ==
    /\ pc = "preCreateChecks"
    /\ flags \in FlagValues
    /\ ConfigIdle
    /\ SplitIdle
    /\ ForwardIdle
    /\ ThresholdIdle
    /\ NetworkIdle
    /\ KeychainIdle
    /\ NodeIdle
    /\ SSHIdle
    /\ DeployIdle

\* createNodes up to the first read of the topology store
CreateNodesChecks ==
    /\ pc = "preCreateChecks"
    /\ LET e == preCreateChecks(flags)
       IN  IF e # Nil
           THEN Return(e, {})
           ELSE pc' = "start" /\ UNCHANGED retval
    /\ UNCHANGED <<requestVars, existingMonitoringInstance, sshVars, deployVars, pureVars, targetVars,
                   addMonitoring, monitoringHostRegion, cloudConfigMap,
                   monitoringNodeConfig, publicIPMap, loopVars, storeVars, hosts,
                   monitoringHosts, readyVars, bootVars, agentVars, faults>>

NextChecks == CreateNodesChecks \/ GetExisting

SpecChecks == InitChecks /\ [][NextChecks]_vars

(***************************************************************************)
(* addHTTPHostToConfigFile: the rewrite of a node's config.json.  A file   *)
(* is missing, not JSON, the JSON null, or a JSON object; a value of an    *)
(* object is a string or a number.  A number <<"number", k, r>> stands for *)
(* the integer k * 2^53 + r: encoding/json decodes every number of a       *)
(* map[string]interface{} as a float64, which is exact below 2^53 and has  *)
(* a spacing of 2 from 2^53 on.                                            *)
(***************************************************************************)
MaxLow == 3
MaxConfigRuns == 2

ConfigKeys == {"http-host", "network-id", "log-level"}
ConfigValues ==
    {<<"string", "0.0.0.0">>, <<"string", "127.0.0.1">>}
        \cup {<<"number", k, r>> : k \in {0, 1}, r \in 0..MaxLow}

Object(f) == [kind |-> "object", fields |-> f]
Objects == {Object(f) : f \in UNION {[ks -> ConfigValues] : ks \in SUBSET ConfigKeys}}
InvalidFile == [kind |-> "invalid", fields |-> <<>>]
NullFile == [kind |-> "null", fields |-> <<>>]
ConfigFiles == {NoFile, InvalidFile, NullFile} \cup Objects

\* the float64 nearest to k * 2^53 + r, ties to the even mantissa
Float64(v) ==
    IF v[1] # "number" \/ v[2] = 0 \/ v[3] % 2 = 0
    THEN v
    ELSE IF ((v[3] - 1) \div 2) % 2 = 0
         THEN <<"number", v[2], v[3] - 1>>
         ELSE <<"number", v[2], v[3] + 1>>

\* json.Unmarshal into a map[string]interface{}
Unmarshal(fields) == [k \in DOMAIN fields |-> Float64(fields[k])]

\* `result["http-host"] = "0.0.0.0"`
SetHTTPHost(result) ==
    [k \in DOMAIN result \cup {"http-host"} |->
        IF k = "http-host" THEN <<"string", "0.0.0.0">> ELSE result[k]]

\* the content addHTTPHostToConfigFile writes for a JSON object
Rewrite(file) == Object(SetHTTPHost(Unmarshal(file.fields)))

ConfigReturn(e, file) ==
    /\ configRet' = Append(configRet, e)
    /\ configFile' = file

InitConfig ==
    /\ pc = "start"
    /\ FlagsIdle
    /\ SplitIdle
    /\ ForwardIdle
    /\ ThresholdIdle
    /\ NetworkIdle
    /\ KeychainIdle
    /\ NodeIdle
    /\ SSHIdle
    /\ DeployIdle
    /\ configFile \in ConfigFiles
    /\ configOrig = configFile
    /\ configRet = <<>>

\* one call of addHTTPHostToConfigFile on the file
AddHTTPHostToConfigFile ==
    /\ Len(configRet) < MaxConfigRuns
    /\ \/ \* os.Open fails: the file is missing or cannot be read
          /\ ConfigReturn("open", configFile)
       \/ \* json.Unmarshal fails
          /\ configFile.kind = "invalid"
          /\ ConfigReturn("unmarshal", configFile)
       \/ \* the JSON null leaves the map nil, and the assignment panics
          /\ configFile.kind = "null"
          /\ ConfigReturn("panic", configFile)
       \/ /\ configFile.kind = "object"
          /\ \/ ConfigReturn(Nil, Rewrite(configFile))
             \/ \* os.WriteFile cannot open the file for writing
                ConfigReturn("write", configFile)
             \/ \* os.WriteFile truncated the file and the write failed
                ConfigReturn("write", InvalidFile)
    /\ UNCHANGED <<nodeVars, sshVars, deployVars, flags, splitVars, fwdVars, thresholdVars, networkVars, keychainVars,
                   configOrig>>

NextConfig == AddHTTPHostToConfigFile

SpecConfig == InitConfig /\ [][NextConfig]_vars

(***************************************************************************)
(* splitScript: the rendered script is cut at its separator lines into the *)
(* tasks RunOverSSH runs.  A script is its lines and whether the last line *)
(* ends with a newline.                                                    *)
(***************************************************************************)
MaxLines == 3

Preamble == "#/usr/bin/env bash\nset -euo pipefail\n"
CommandLines == {"apt-get update", "systemctl restart avalanchego"}

Scripts ==
    {sc \in [lines : SeqsUpTo(TaskTitles \cup CommandLines, MaxLines), terminated : BOOLEAN] :
        sc.lines = <<>> => sc.terminated}

\* the lines input.ReadString('\n') returns with a nil error: a last line
\* without a newline comes back together with io.EOF
ReadLines(sc) ==
    IF sc.terminated THEN sc.lines ELSE SubSeq(sc.lines, 1, Len(sc.lines) - 1)

\* strings.HasPrefix(line, separatorPrefix)
HasSeparatorPrefix(line) == line \in TaskTitles

RECURSIVE SplitLines(_, _, _, _)
\* the loop of splitScript over the lines read
SplitLines(lines, buffers, currentBuffer, separators) ==
    IF lines = <<>>
    THEN [buffers |-> Append(buffers, currentBuffer), separators |-> separators]
    ELSE IF HasSeparatorPrefix(Head(lines))
         THEN SplitLines(Tail(lines), Append(buffers, currentBuffer), <<Preamble>>,
                         Append(separators, Head(lines)))
         ELSE SplitLines(Tail(lines), buffers, Append(currentBuffer, Head(lines)),
                         separators)

splitScript(sc) == SplitLines(ReadLines(sc), <<>>, <<Preamble>>, <<"">>)

InitSplit ==
    /\ pc = "start"
    /\ FlagsIdle
    /\ ConfigIdle
    /\ ForwardIdle
    /\ ThresholdIdle
    /\ NetworkIdle
    /\ KeychainIdle
    /\ InitRest
    /\ numNodesMap = EmptyMap
    /\ network = "fuji"
    /\ cloudService = "aws"
    /\ ~useStaticIP
    /\ ~addMonitoring
    /\ clustersConfig = EmptyMap
    /\ DeployIdle
    /\ script \in Scripts
    /\ tasks = <<>>
    /\ taskTitle = <<>>
    /\ taskN = 0
    /\ sshPc = "splitScript"
    /\ sshErr = Nil
    /\ sshRet = Nil
    /\ commands = <<>>

\* `tasks, taskTitle, err := splitScript(&script, ...)`
SplitScript ==
    /\ sshPc = "splitScript"
    /\ tasks' = splitScript(script).buffers
    /\ taskTitle' = splitScript(script).separators
    /\ sshPc' = "range"
    /\ UNCHANGED <<nodeVars, deployVars, flags, configVars, fwdVars, thresholdVars, networkVars, keychainVars,
                   script, taskN, sshErr, sshRet,
                   commands>>

NextSplit ==
    \/ SplitScript
    \/ RunOverSSHRange
    \/ RunOverSSHCommand
    \/ RunOverSSHRetry
    \/ RunOverSSHCheck

SpecSplit == InitSplit /\ [][NextSplit]_vars

(***************************************************************************)
(* Host.Forward: the port forward over the SSH client.  Forward starts two *)
(* goroutines, one per direction of the copy, and returns; each goroutine  *)
(* assigns the err of Forward and sends a non-nil err to errorChan, an     *)
(* unbuffered channel.                                                     *)
(***************************************************************************)
Goroutines == {1, 2}
ForwardOthers == <<nodeVars, sshVars, deployVars, flags, configVars, splitVars, thresholdVars,
                   networkVars, keychainVars>>

InitForward ==
    /\ pc = "start"
    /\ FlagsIdle
    /\ ConfigIdle
    /\ SplitIdle
    /\ ThresholdIdle
    /\ NetworkIdle
    /\ KeychainIdle
    /\ NodeIdle
    /\ SSHIdle
    /\ DeployIdle
    /\ fwdPc = "Connect"
    /\ fwdRet = Nil
    /\ gpc = <<>>
    /\ fwdErr = Nil
    /\ errWriters = {}
    /\ sending = <<>>
    /\ clientClosed = FALSE

\* `return` of Forward
ForwardReturn(e) ==
    /\ fwdPc' = "returned"
    /\ fwdRet' = e

\* h.Connect(), net.ResolveTCPAddr and client.DialTCP: each fails or goes on
ForwardSetup ==
    /\ fwdPc \in {"Connect", "ResolveTCPAddr", "DialTCP"}
    /\ \E e \in {Nil} \cup Errs :
          /\ fwdErr' = e
          /\ IF e # Nil
             THEN /\ ForwardReturn(IF fwdPc = "DialTCP" THEN "unable to port forward" ELSE e)
                  /\ clientClosed' = (fwdPc # "Connect")
             ELSE /\ fwdPc' = CASE fwdPc = "Connect" -> "ResolveTCPAddr"
                                [] fwdPc = "ResolveTCPAddr" -> "DialTCP"
                                [] fwdPc = "DialTCP" -> "go1"
                  /\ UNCHANGED <<fwdRet, clientClosed>>
    /\ UNCHANGED <<ForwardOthers, gpc, errWriters, sending>>

\* `go func() {...}()`: start the next copy goroutine
ForwardGo ==
    /\ fwdPc \in {"go1", "go2"}
    /\ gpc' = Append(gpc, "Copy")
    /\ sending' = Append(sending, Nil)
    /\ fwdPc' = IF fwdPc = "go1" THEN "go2" ELSE "return"
    /\ UNCHANGED <<ForwardOthers, fwdRet, fwdErr, errWriters, clientClosed>>

\* `return nil`, and the deferred client.Close()
ForwardDone ==
    /\ fwdPc = "return"
    /\ ForwardReturn(Nil)
    /\ clientClosed' = TRUE
    /\ UNCHANGED <<ForwardOthers, gpc, fwdErr, errWriters, sending>>

\* `_, err = io.Copy(...)`: the copy of goroutine g ends and its result is
\* assigned to the err of Forward
Copy(g) ==
    /\ g \in DOMAIN gpc
    /\ gpc[g] = "Copy"
    /\ \E e \in {Nil} \cup Errs :
          /\ fwdErr' = e
          /\ errWriters' = errWriters \cup {g}
          /\ gpc' = [gpc EXCEPT ![g] = "if"]
    /\ UNCHANGED <<ForwardOthers, fwdPc, fwdRet, sending, clientClosed>>

\* `if err != nil`: reads the err of Forward, which the other goroutine
\* may have assigned in between
CopyCheck(g) ==
    /\ g \in DOMAIN gpc
    /\ gpc[g] = "if"
    /\ gpc' = [gpc EXCEPT ![g] = IF fwdErr # Nil THEN "send" ELSE "done"]
    /\ UNCHANGED <<ForwardOthers, fwdPc, fwdRet, fwdErr, errWriters, sending, clientClosed>>

\* `errorChan <- err`: the operand is read from the err of Forward, then the
\* goroutine waits for a receiver.  errorChan is unbuffered and nothing
\* receives from it, so the goroutine stays in "blocked"
CopySend(g) ==
    /\ g \in DOMAIN gpc
    /\ gpc[g] = "send"
    /\ sending' = [sending EXCEPT ![g] = fwdErr]
    /\ gpc' = [gpc EXCEPT ![g] = "blocked"]
    /\ UNCHANGED <<ForwardOthers, fwdPc, fwdRet, fwdErr, errWriters, clientClosed>>

NextForward ==
    \/ ForwardSetup
    \/ ForwardGo
    \/ ForwardDone
    \/ \E g \in Goroutines : Copy(g)
    \/ \E g \in Goroutines : CopyCheck(g)
    \/ \E g \in Goroutines : CopySend(g)

ForwardGoroutine(g) == Copy(g) \/ CopyCheck(g) \/ CopySend(g)

SpecForward ==
    /\ InitForward
    /\ [][NextForward]_vars
    /\ WF_vars(ForwardSetup \/ ForwardGo \/ ForwardDone)
    /\ \A g \in Goroutines : WF_vars(ForwardGoroutine(g))

(***************************************************************************)
(* deploySubnet, creation of a new subnet: the control keys and the        *)
(* threshold that DeploySubnet is called with.                             *)
(***************************************************************************)
MaxKeys == 3

KeyList(n) == [i \in 1..n |-> i]
Slice(n) == [isNil |-> FALSE, elems |-> KeyList(n)]
Slices == {NilSlice} \cup {Slice(n) : n \in 0..MaxKeys}

KeyFlagValues ==
    [controlKeys : Slices, sameControlKey : BOOLEAN, threshold : 0..(MaxKeys + 1),
     subnetAuthKeys : Slices]

\* strconv.Itoa: the decimal digits of a number below 100
Itoa(n) == IF n < 10 THEN <<n>> ELSE <<n \div 10, n % 10>>

RECURSIVE ParseUint(_)
\* strconv.ParseUint of a string of decimal digits
ParseUint(digits) ==
    IF digits = <<>> THEN 0
    ELSE 10 * ParseUint(SubSeq(digits, 1, Len(digits) - 1)) + digits[Len(digits)]

\* the options getThreshold offers: "1" .. "maxLen"
IndexList(maxLen) == [i \in 1..maxLen |-> Itoa(i)]

\* app.Prompt.CaptureList: one of the options offered
CaptureList(options) == Range(options)

\* getThreshold: what it can return, as (value, error)
getThreshold(maxLen) ==
    IF maxLen = 1
    THEN {[val |-> 1, err |-> Nil]}
    ELSE {[val |-> 0, err |-> "prompt"]}
         \cup {IF ParseUint(choice) > maxLen
               THEN [val |-> 0, err |-> "the threshold can't be bigger than the number of control keys"]
               ELSE [val |-> ParseUint(choice), err |-> Nil] :
               choice \in CaptureList(IndexList(maxLen))}

\* a check that lets one signature too many through
ThresholdTooBig_OffByOne(t, keys) == t > Len(keys.elems) + 1

\* `int(threshold) > len(controlKeys)`
ThresholdTooBig(t, keys) == t > Len(keys.elems)

ThresholdOthers == <<nodeVars, sshVars, deployVars, flags, configVars, splitVars, fwdVars,
                     networkVars, keychainVars>>

InitThreshold ==
    /\ pc = "start"
    /\ FlagsIdle
    /\ ConfigIdle
    /\ SplitIdle
    /\ ForwardIdle
    /\ NetworkIdle
    /\ KeychainIdle
    /\ NodeIdle
    /\ SSHIdle
    /\ DeployIdle
    /\ keyFlags \in KeyFlagValues
    /\ controlKeys = keyFlags.controlKeys
    /\ threshold = keyFlags.threshold
    /\ keysPc = "controlKeys"
    /\ keysRet = Nil
    /\ deployArgs = NoArgs

KeysReturn(e) ==
    /\ keysPc' = "returned"
    /\ keysRet' = e

\* one control-key specification only; --same-control-key loads the creation keys
SameControlKey ==
    /\ keysPc = "controlKeys"
    /\ IF Len(controlKeys.elems) > 0 /\ keyFlags.sameControlKey
       THEN /\ KeysReturn("--control-keys and --same-control-key are mutually exclusive")
            /\ UNCHANGED controlKeys
       ELSE IF keyFlags.sameControlKey
            THEN \/ /\ KeysReturn("loadCreationKeys")
                    /\ UNCHANGED controlKeys
                 \/ /\ \E n \in 1..MaxKeys : controlKeys' = Slice(n)
                    /\ keysPc' = "getControlKeys"
                    /\ UNCHANGED keysRet
            ELSE /\ keysPc' = "getControlKeys"
                 /\ UNCHANGED <<controlKeys, keysRet>>
    /\ UNCHANGED <<ThresholdOthers, keyFlags, threshold, deployArgs>>

\* `if controlKeys == nil`: the prompt for the control keys, which fails, is
\* cancelled (deploySubnet returns nil), or gives the keys chosen
PromptControlKeys ==
    /\ keysPc = "getControlKeys"
    /\ IF controlKeys.isNil
       THEN \/ /\ KeysReturn("getControlKeys")
               /\ UNCHANGED controlKeys
            \/ /\ KeysReturn(Nil)
               /\ UNCHANGED controlKeys
            \/ /\ \E n \in 0..MaxKeys : controlKeys' = Slice(n)
               /\ keysPc' = "threshold"
               /\ UNCHANGED keysRet
       ELSE /\ keysPc' = "threshold"
            /\ UNCHANGED <<controlKeys, keysRet>>
    /\ UNCHANGED <<ThresholdOthers, keyFlags, threshold, deployArgs>>

\* the default of a zero threshold, the test against the control keys, and
\* the prompt for a threshold that is still zero
ValidateThreshold ==
    /\ keysPc = "threshold"
    /\ LET given == IF threshold = 0 /\ ~keyFlags.subnetAuthKeys.isNil
                    THEN Len(keyFlags.subnetAuthKeys.elems)
                    ELSE threshold
       IN  IF ThresholdTooBig(given, controlKeys)
           THEN /\ KeysReturn("given threshold is greater than number of control keys")
                /\ threshold' = given
           ELSE IF given = 0
                THEN \E r \in getThreshold(Len(controlKeys.elems)) :
                        IF r.err # Nil
                        THEN KeysReturn(r.err) /\ threshold' = given
                        ELSE /\ threshold' = r.val
                             /\ keysPc' = "subnetAuthKeys"
                             /\ UNCHANGED keysRet
                ELSE /\ threshold' = given
                     /\ keysPc' = "subnetAuthKeys"
                     /\ UNCHANGED keysRet
    /\ UNCHANGED <<ThresholdOthers, keyFlags, controlKeys, deployArgs>>

\* the wallet key and the subnet-auth keys: checked or prompted, with an error
\* or not
SubnetAuthKeys ==
    /\ keysPc = "subnetAuthKeys"
    /\ \/ KeysReturn("subnetAuthKeys")
       \/ /\ keysPc' = "DeploySubnet"
          /\ UNCHANGED keysRet
    /\ UNCHANGED <<ThresholdOthers, keyFlags, controlKeys, threshold, deployArgs>>

\* `subnetID, err = deployer.DeploySubnet(controlKeys, threshold)`
CallDeploySubnet ==
    /\ keysPc = "DeploySubnet"
    /\ deployArgs' = [called |-> TRUE, controlKeys |-> controlKeys.elems,
                      threshold |-> threshold]
    /\ keysPc' = "deployed"
    /\ UNCHANGED <<ThresholdOthers, keyFlags, controlKeys, threshold, keysRet>>

NextThreshold ==
    \/ SameControlKey
    \/ PromptControlKeys
    \/ ValidateThreshold
    \/ SubnetAuthKeys
    \/ CallDeploySubnet

SpecThreshold == InitThreshold /\ [][NextThreshold]_vars

(***************************************************************************)
(* GetNetworkFromCmdLineFlags (cmd/subnetcmd/deploy.go).                   *)
(***************************************************************************)
NetworkKinds == {"Mainnet", "Fuji", "Local", "Devnet"}

\* models.NetworkKind.String: the name of a kind shown to the user
KindString(kind) ==
    CASE kind = "Mainnet" -> "Mainnet"
      [] kind = "Fuji" -> "Fuji"
      [] kind = "Local" -> "Local Network"
      [] kind = "Devnet" -> "Devnet"
      [] OTHER -> "invalid network"

\* models.NetworkFromString: the network of a name, or the undefined network
NetworkFromString(str) ==
    CASE str = "Mainnet" -> "Mainnet"
      [] str = "Fuji" -> "Fuji"
      [] str = "Local Network" -> "Local"
      [] str = "Devnet" -> "Devnet"
      [] OTHER -> "Undefined"

NetworkFlagValues ==
    [useLocal : BOOLEAN, useDevnet : BOOLEAN, useFuji : BOOLEAN, useMainnet : BOOLEAN,
     supportedNetworkKinds : SUBSET NetworkKinds]

NetworkFlagList(f) == <<f.useLocal, f.useDevnet, f.useFuji, f.useMainnet>>

\* a test of the network flags that accepts any two of them
NetworkFlagsExclusive_UpToTwo(f) ==
    Cardinality({i \in 1..4 : NetworkFlagList(f)[i]}) <= 2

\* `flags.EnsureMutuallyExclusive([]bool{useLocal, useDevnet, useFuji, useMainnet})`
NetworkFlagsExclusive(f) == EnsureMutuallyExclusive(NetworkFlagList(f))

NetworkOthers == <<nodeVars, sshVars, deployVars, flags, configVars, splitVars, fwdVars,
                   thresholdVars, keychainVars>>

InitNetwork ==
    /\ pc = "start"
    /\ FlagsIdle
    /\ ConfigIdle
    /\ SplitIdle
    /\ ForwardIdle
    /\ ThresholdIdle
    /\ KeychainIdle
    /\ NodeIdle
    /\ SSHIdle
    /\ DeployIdle
    /\ networkFlags \in NetworkFlagValues
    /\ flagNetwork = "Undefined"
    /\ networkPc = "flags"
    /\ networkRet = NoNetwork

NetworkReturn(net, e) ==
    /\ networkPc' = "returned"
    /\ networkRet' = [network |-> net, err |-> e]

\* the switch over the flags: the first flag set, in the order local, devnet,
\* fuji, mainnet
NetworkSwitch ==
    /\ networkPc = "flags"
    /\ flagNetwork' = IF networkFlags.useLocal THEN "Local"
                      ELSE IF networkFlags.useDevnet THEN "Devnet"
                      ELSE IF networkFlags.useFuji THEN "Fuji"
                      ELSE IF networkFlags.useMainnet THEN "Mainnet"
                      ELSE "Undefined"
    /\ networkPc' = IF flagNetwork' = "Undefined" THEN "prompt" ELSE "supported"
    /\ UNCHANGED <<NetworkOthers, networkFlags, networkRet>>

\* no flag was set: the user chooses among the names of the supported kinds
NetworkPrompt ==
    /\ networkPc = "prompt"
    /\ \/ NetworkReturn("Undefined", "prompt")
       \/ \E networkStr \in {KindString(k) : k \in networkFlags.supportedNetworkKinds} :
             NetworkReturn(NetworkFromString(networkStr), Nil)
    /\ UNCHANGED <<NetworkOthers, networkFlags, flagNetwork>>

\* a flag was set: the network is supported and no other flag is set
NetworkSupported ==
    /\ networkPc = "supported"
    /\ IF flagNetwork \notin networkFlags.supportedNetworkKinds
       THEN NetworkReturn("Undefined", "network flag is not supported")
       ELSE IF ~NetworkFlagsExclusive(networkFlags)
            THEN NetworkReturn("Undefined", "network flags are mutually exclusive")
            ELSE NetworkReturn(flagNetwork, Nil)
    /\ UNCHANGED <<NetworkOthers, networkFlags, flagNetwork>>

NextNetwork ==
    \/ NetworkSwitch
    \/ NetworkPrompt
    \/ NetworkSupported

SpecNetwork == InitNetwork /\ [][NextNetwork]_vars

(***************************************************************************)
(* GetKeychainFromCmdLineFlags and GetKeychain (cmd/subnetcmd/deploy.go).  *)
(***************************************************************************)
ErrMutuallyExlusiveKeySource ==
    "key source flags --key, --ewoq, --ledger/--ledger-addrs are mutually exclusive"
ErrStoredKeyOrEwoqOnMainnet ==
    "key sources --key, --ewoq are not available for mainnet operations"
ErrNonEwoqKeyOnDevnet ==
    "key source --ewoq is the only one available for devnet operations"
ErrEwoqKeyOnFuji == "key source --ewoq is not available for fuji operations"

KeyNames == {"", "mykey"}
LedgerAddressLists == {<<>>, <<"P-ledger">>}

KeychainArgValues ==
    [network : NetworkKinds, keyName : KeyNames, useEwoq : BOOLEAN, useLedger : BOOLEAN,
     ledgerAddresses : LedgerAddressLists]

\* prompts.GetEwoqKeyOrLedger: the key source the user chooses, as
\* (useLedger, useEwoq, keyName)
GetEwoqKeyOrLedger ==
    {<<TRUE, FALSE, "">>, <<FALSE, TRUE, "">>, <<FALSE, FALSE, "mykey">>}

\* GetKeychain: the keychain of the ledger, of ewoq, or of the stored key
GetKeychain(e, l, k) ==
    IF l THEN "ledger" ELSE IF e THEN "ewoq" ELSE "key " \o k

\* a devnet test that lets the ledger through
NonEwoqKey_LedgerAllowed(k, l) == k # ""

\* `keyName != "" || *useLedger`
NonEwoqKey(k, l) == k # "" \/ l

KeychainOthers == <<nodeVars, sshVars, deployVars, flags, configVars, splitVars, fwdVars,
                    thresholdVars, networkVars>>

InitKeychain ==
    /\ pc = "start"
    /\ FlagsIdle
    /\ ConfigIdle
    /\ SplitIdle
    /\ ForwardIdle
    /\ ThresholdIdle
    /\ NetworkIdle
    /\ NodeIdle
    /\ SSHIdle
    /\ DeployIdle
    /\ keychainArgs \in KeychainArgValues
    /\ useLedger = keychainArgs.useLedger
    /\ useEwoq = keychainArgs.useEwoq
    /\ keyName = keychainArgs.keyName
    /\ keychainPc = "ledgerAddresses"
    /\ keychainRet = NoKeychain

KeychainReturn(kc, e) ==
    /\ keychainPc' = "returned"
    /\ keychainRet' = [keychain |-> kc, err |-> e]

\* `if len(ledgerAddresses) > 0 { *useLedger = true }`
LedgerAddressesGiven ==
    /\ keychainPc = "ledgerAddresses"
    /\ useLedger' = IF Len(keychainArgs.ledgerAddresses) > 0 THEN TRUE ELSE useLedger
    /\ keychainPc' = "exclusive"
    /\ UNCHANGED <<KeychainOthers, keychainArgs, useEwoq, keyName, keychainRet>>

\* at most one of the ledger, ewoq and a stored key
KeySourceExclusive ==
    /\ keychainPc = "exclusive"
    /\ IF ~EnsureMutuallyExclusive(<<useLedger, useEwoq, keyName # "">>)
       THEN KeychainReturn(Nil, ErrMutuallyExlusiveKeySource)
       ELSE keychainPc' = "network" /\ UNCHANGED keychainRet
    /\ UNCHANGED <<KeychainOthers, keychainArgs, useLedger, useEwoq, keyName>>

\* the prompt for a key source: it fails or gives the source chosen
KeySourcePrompt ==
    \/ /\ KeychainReturn(Nil, "prompt")
       /\ UNCHANGED <<useLedger, useEwoq, keyName>>
    \/ /\ \E choice \in GetEwoqKeyOrLedger :
             /\ useLedger' = choice[1]
             /\ useEwoq' = choice[2]
             /\ keyName' = choice[3]
       /\ keychainPc' = "GetKeychain"
       /\ UNCHANGED keychainRet

KeySourceKept ==
    /\ keychainPc' = "GetKeychain"
    /\ UNCHANGED <<useLedger, useEwoq, keyName, keychainRet>>

\* the switch over the kind of the network
KeySourceByNetwork ==
    /\ keychainPc = "network"
    /\ CASE keychainArgs.network = "Devnet" ->
               IF NonEwoqKey(keyName, useLedger)
               THEN /\ KeychainReturn(Nil, ErrNonEwoqKeyOnDevnet)
                    /\ useEwoq' = TRUE
                    /\ UNCHANGED <<useLedger, keyName>>
               ELSE /\ useEwoq' = TRUE
                    /\ keychainPc' = "GetKeychain"
                    /\ UNCHANGED <<useLedger, keyName, keychainRet>>
         [] keychainArgs.network = "Local" ->
               IF ~useLedger /\ ~useEwoq /\ keyName = ""
               THEN KeySourcePrompt
               ELSE KeySourceKept
         [] keychainArgs.network = "Fuji" ->
               IF useEwoq
               THEN /\ KeychainReturn(Nil, ErrEwoqKeyOnFuji)
                    /\ UNCHANGED <<useLedger, useEwoq, keyName>>
               ELSE IF ~useLedger /\ keyName = ""
                    THEN KeySourcePrompt
                    ELSE KeySourceKept
         [] keychainArgs.network = "Mainnet" ->
               IF keyName # "" \/ useEwoq
               THEN /\ KeychainReturn(Nil, ErrStoredKeyOrEwoqOnMainnet)
                    /\ UNCHANGED <<useLedger, useEwoq, keyName>>
               ELSE /\ useLedger' = TRUE
                    /\ keychainPc' = "GetKeychain"
                    /\ UNCHANGED <<useEwoq, keyName, keychainRet>>
    /\ UNCHANGED <<KeychainOthers, keychainArgs>>

\* `return GetKeychain(useEwoq, *useLedger, ledgerAddresses, keyName, network)`:
\* the keychain of the key source, or the error of loading it
CallGetKeychain ==
    /\ keychainPc = "GetKeychain"
    /\ \/ KeychainReturn(Nil, "GetKeychain")
       \/ KeychainReturn(GetKeychain(useEwoq, useLedger, keyName), Nil)
    /\ UNCHANGED <<KeychainOthers, keychainArgs, useLedger, useEwoq, keyName>>

NextKeychain ==
    \/ LedgerAddressesGiven
    \/ KeySourceExclusive
    \/ KeySourceByNetwork
    \/ CallGetKeychain

SpecKeychain == InitKeychain /\ [][NextKeychain]_vars

(***************************************************************************)
(* Properties.                                                             *)
(***************************************************************************)
\* the fan-out whose goroutines stepsRun describes
LogPhase ==
    IF DOMAIN apc # {} THEN "agent" ELSE IF DOMAIN bpc # {} THEN "bootstrap" ELSE "readiness"

\* goroutine i of the fan-out in progress had a failing step
Failed(i) == \E k \in DOMAIN stepsRun[i] : stepsRun[i][k].res # Nil

FailedHosts == {hosts[i] : i \in {j \in DOMAIN stepsRun : Failed(j)}}

\* the main goroutine has passed the join barrier of the bootstrap fan-out and
\* no later fan-out has started
BootJoined ==
    /\ LogPhase = "bootstrap"
    /\ pc \in {"monitoring", "monitoringStep", "agentConfig", "setupDevnet", "final", "done"}

\* the instances this run allocated
RunInstances == GetAllInstanceIDs(cloudConfigMap)

\* nr holds one entry for each host that failed in the fan-out, and nothing else
ExactlyFailures(nr) ==
    /\ DOMAIN nr = FailedHosts
    /\ \A h \in DOMAIN nr : Len(nr[h]) = 1
    /\ ResultsLen(nr) = Cardinality(FailedHosts)

\* C1 (as stated): after the join barrier of the Readiness Gate and of the
\* bootstrap fan-out the result set has one entry per dispatched host.
C1_Original ==
    /\ pc = "readyCheck" => ResultsLen(hostErrors) = Len(hosts)
    /\ BootJoined => ResultsLen(wgResults) = Len(hosts)

\* C1 (amended): after the join barrier of either fan-out every host was
\* dispatched and the result set holds exactly one entry per host that failed
\* in the fan-out and none for a host that succeeded; nothing is lost,
\* duplicated or overwritten.
C1_Amended ==
    /\ pc = "readyCheck" => (DOMAIN rpc = DOMAIN hosts /\ ExactlyFailures(hostErrors))
    /\ BootJoined => (DOMAIN bpc = DOMAIN hosts /\ ExactlyFailures(wgResults))

C1_Witness ==
    /\ BootJoined
    /\ Len(hosts) = 2
    /\ ResultsLen(wgResults) = 1

\* C2 (as stated): when some hosts pass the Readiness Gate and at least one
\* times out, every host that passed still runs the bootstrap pipeline and
\* the run is reported as failed.
C2_Original ==
    \A i \in DOMAIN hosts :
        (pc = "done" /\ HasErrors(hostErrors) /\ ~HasNodeIDWithError(hostErrors, hosts[i]))
            => (i \in DOMAIN bpc /\ bpc[i] = "done" /\ retval.kind # "ok")

\* C2 (amended): when at least one dispatched host times out in the Readiness
\* Gate, no host of the run enters the bootstrap pipeline, the hosts that
\* passed included, and createNodes returns the provisioning error.
C2_Amended ==
    HasErrors(hostErrors) =>
        /\ DOMAIN bpc = {}
        /\ pc \in {"waitForHosts", "readyCheck", "done"}
        /\ pc = "done" => retval.kind = "provision"

C2_Witness ==
    /\ pc = "done"
    /\ retval.kind = "provision"
    /\ \E i \in DOMAIN hosts : ~Failed(i)
    /\ \E i \in DOMAIN hosts : Failed(i)

\* C3: when the Readiness Gate fails for a non-empty set F of hosts,
\* createNodes returns an error naming exactly the hosts of F, and the
\* topology entries and the inventory written for the run's instances remain.
C3_ReadinessErrorNamesFailed ==
    (pc = "done" /\ retval.kind = "provision") =>
        /\ retval.hosts = FailedHosts
        /\ retval.hosts # {}
        /\ RunInstances \subseteq Range(clustersConfig[ClusterName].Nodes)
        /\ {HostCloudIDToAnsibleID(cloudService, id) : id \in RunInstances}
               \subseteq Range(inventory)

C3_Witness ==
    /\ pc = "done"
    /\ retval.kind = "provision"
    /\ Cardinality(retval.hosts) = 1
    /\ Len(hosts) = 2

\* the names and the results of the steps goroutine i has run
StepNames(i) == [k \in DOMAIN stepsRun[i] |-> stepsRun[i][k].step]
LastStep(i) == stepsRun[i][Len(stepsRun[i])]

\* C4: in the Readiness Gate hosts are independent: a waiting goroutine can
\* complete, successfully, whatever the other goroutines do, and a host is
\* recorded as failed only if its own wait failed.
C4_ReadinessIndependent ==
    /\ \A i \in DOMAIN rpc :
          rpc[i] = "WaitForSSHShell" =>
              ENABLED (WaitForSSHShell(i) /\ hostErrors' = hostErrors)
    /\ LogPhase = "readiness" =>
          \A i \in DOMAIN rpc : hosts[i] \in DOMAIN hostErrors => Failed(i)

C4_Witness ==
    /\ pc = "waitForHosts"
    /\ \E i, j \in DOMAIN rpc :
          /\ rpc[i] = "done" /\ ~Failed(i) /\ hosts[i] \notin DOMAIN hostErrors
          /\ rpc[j] = "WaitForSSHShell"

\* the bootstrap pipeline, as the specification orders it
BootPipeline(mon) ==
    IF mon
    THEN <<"Connect", "provideStakingCertAndKey", "RunSSHSetupNode",
           "RunSSHSetupMachineMetrics", "RunSSHSetupBuildEnv", "RunSSHSetupCLIFromSource">>
    ELSE <<"Connect", "provideStakingCertAndKey", "RunSSHSetupNode",
           "RunSSHSetupBuildEnv", "RunSSHSetupCLIFromSource">>

\* C5 (as stated): a step failure on one host does not prevent a success
\* outcome from being recorded for a sibling whose steps all succeed.
C5_Original ==
    LogPhase = "bootstrap" =>
        \A i \in DOMAIN bpc :
            (bpc[i] = "done" /\ ~Failed(i) /\ \E j \in DOMAIN bpc : j # i /\ Failed(j))
                => hosts[i] \in DOMAIN wgResults

\* C5 (amended): a step failure on one host never cancels or fails a sibling:
\* every other goroutine can always take its next step, returns only after a
\* failure of its own or after all its steps, and no failure is recorded for
\* a host whose steps all succeeded (success is the absence of an entry).
C5_Amended ==
    LogPhase = "bootstrap" =>
        \A i \in DOMAIN bpc :
            /\ bpc[i] # "done" => ENABLED BootStep(i)
            /\ bpc[i] = "done" => (Failed(i) \/ StepNames(i) = BootPipeline(addMonitoring))
            /\ hosts[i] \in DOMAIN wgResults => Failed(i)
            /\ (bpc[i] = "done" /\ ~Failed(i)) => hosts[i] \notin DOMAIN wgResults

C5_Witness ==
    /\ LogPhase = "bootstrap"
    /\ \E i, j \in DOMAIN bpc :
          /\ bpc[j] = "done" /\ Failed(j) /\ Len(stepsRun[j]) = 1
          /\ bpc[i] = "done" /\ ~Failed(i) /\ StepNames(i) = BootPipeline(addMonitoring)

\* C6: the steps of a host run in the order connect, upload credentials,
\* setup node, metrics agent (iff monitoring is enabled), build toolchain,
\* CLI; a step starts only after every earlier one succeeded, and no step
\* runs after the first failing one.
C6_StepOrder ==
    LogPhase = "bootstrap" =>
        \A i \in DOMAIN bpc :
            LET log == stepsRun[i]
                P == BootPipeline(addMonitoring)
            IN /\ Len(log) <= Len(P)
               /\ \A k \in DOMAIN log :
                     /\ log[k].step = P[k]
                     /\ k < Len(log) => log[k].res = Nil
               /\ bpc[i] # "done" => (~Failed(i) /\ bpc[i] = P[Len(log) + 1])
               /\ bpc[i] = "done" => (Failed(i) \/ Len(log) = Len(P))

C6_Witness ==
    /\ LogPhase = "bootstrap"
    /\ \E i, j \in DOMAIN bpc :
          /\ StepNames(i) = BootPipeline(TRUE) /\ ~Failed(i)
          /\ bpc[j] = "done" /\ Failed(j) /\ LastStep(j).step = "RunSSHSetupMachineMetrics"

\* C7 (as stated): the outcome recorded for a failed host identifies the
\* stage of the failure: failures at different stages give different outcomes.
C7_Original ==
    LogPhase = "bootstrap" =>
        \A i, j \in DOMAIN bpc :
            (/\ bpc[i] = "done" /\ Failed(i)
             /\ bpc[j] = "done" /\ Failed(j)
             /\ LastStep(i).step # LastStep(j).step)
                => wgResults[hosts[i]] # wgResults[hosts[j]]

\* C7 (amended): the outcome recorded for a failed host is the error the
\* failing step returned, with no value and no stage name.
C7_Amended ==
    LogPhase = "bootstrap" =>
        \A i \in DOMAIN bpc :
            (bpc[i] = "done" /\ Failed(i))
                => /\ hosts[i] \in DOMAIN wgResults
                   /\ wgResults[hosts[i]] = <<[Value |-> Nil, Err |-> LastStep(i).res]>>

C7_Witness ==
    /\ LogPhase = "bootstrap"
    /\ \E i, j \in DOMAIN bpc :
          /\ bpc[i] = "done" /\ Failed(i)
          /\ bpc[j] = "done" /\ Failed(j)
          /\ LastStep(i).step # LastStep(j).step
          /\ LastStep(i).res # LastStep(j).res

AllReturned(procs) == \A i \in DOMAIN procs : procs[i] = "done"

\* C8: the aggregator of a fan-out is read only after every goroutine
\* dispatched in that fan-out has returned.
C8_ReadsAfterBarrier ==
    /\ pc = "readyCheck" =>
          (DOMAIN rpc = DOMAIN hosts /\ AllReturned(rpc) /\ createdWaitGroup = 0)
    /\ pc = "agentCheck" =>
          (DOMAIN apc = DOMAIN hosts /\ AllReturned(apc) /\ monWg = 0)
    /\ pc = "final" =>
          (DOMAIN bpc = DOMAIN hosts /\ AllReturned(bpc) /\ wg = 0 /\ AllReturned(apc))

C8_Witness ==
    /\ pc = "agentCheck"
    /\ HasErrors(monWgResults)
    /\ Len(hosts) = 2

\* the main goroutine is in the monitoring phase
MonitoringPhase == pc \in {"monitoring", "monitoringStep", "agentConfig", "agentCheck"}

\* C9: no monitoring action starts while a bootstrap goroutine is running.
C9_MonitoringAfterBootstrap ==
    /\ MonitoringPhase => (DOMAIN bpc = DOMAIN hosts /\ AllReturned(bpc) /\ wg = 0)
    /\ (\E i \in DOMAIN apc : apc[i] # "done") => AllReturned(bpc)

C9_Witness ==
    /\ pc = "agentConfig"
    /\ \E i \in DOMAIN apc : apc[i] = "RunSSHUploadNodeMonitoringConfig"
    /\ HasErrors(wgResults)

\* the nodes recorded for the cluster
ClusterNodes ==
    IF ClusterName \in DOMAIN clustersConfig THEN clustersConfig[ClusterName].Nodes ELSE <<>>

Count(s, x) == Cardinality({k \in DOMAIN s : s[k] = x})

\* the main goroutine has passed the join barrier of the bootstrap fan-out
PastBootBarrier ==
    \/ pc \in {"monitoring", "monitoringStep", "agentConfig", "agentCheck", "setupDevnet",
               "final"}
    \/ pc = "done" /\ retval.kind \in {"monitoring", "agent", "devnet", "deploy", "ok"}

\* CreateClusterNodeConfig has returned without error
StoreWritten ==
    /\ pc \notin {"start", "createInstances", "createMonitoring", "monitoringIP",
                  "regionLoop", "createClusterNodeConfig"}
    /\ ~(pc = "done" /\ retval.kind \in {"allocation", "store"})

\* C10 (as stated): an instance of the run is in the topology store only
\* after the join barrier of the bootstrap phase.
C10_Original ==
    (\E id \in RunInstances : Contains(ClusterNodes, id)) => PastBootBarrier

\* C10 (amended): the topology store is written only by CreateClusterNodeConfig,
\* before any goroutine of the run is dispatched; it appends every allocated
\* instance exactly once, and sets the monitoring node at the end of every
\* region's iteration when monitoring is enabled.
C10_Amended ==
    /\ [](StoreWritten => \A id \in RunInstances : Count(ClusterNodes, id) = 1)
    /\ [][/\ clustersConfig' # clustersConfig =>
                (/\ pc = "createClusterNodeConfig"
                 /\ DOMAIN rpc = {} /\ DOMAIN bpc = {} /\ DOMAIN apc = {})
          /\ (pc = "createClusterNodeConfig" /\ pc' = pc /\ curRegion # "" /\ curRegion' = ""
                 /\ addMonitoring) =>
                clustersConfig'[ClusterName].MonitoringInstance
                    = monitoringNodeConfig.InstanceIDs[1]]_vars

C10_Witness ==
    /\ pc = "waitForHosts"
    /\ DOMAIN rpc = {}
    /\ addMonitoring
    /\ DOMAIN cloudConfigMap = Regions
    /\ \A id \in RunInstances : Contains(ClusterNodes, id)

\* no goroutine of any fan-out has been dispatched
NoWorker == DOMAIN rpc = {} /\ DOMAIN bpc = {} /\ DOMAIN apc = {}

\* C11: when a cloud-provider call of the allocation phase fails, createNodes
\* returns the error at once: no host list is built and no goroutine of the
\* Readiness Gate, the bootstrap pipeline or the agent configuration ever runs.
C11_AllocationErrorAborts ==
    retval.kind = "allocation" =>
        /\ pc = "done"
        /\ hosts = <<>>
        /\ NoWorker
        /\ createdWaitGroup = 0 /\ wg = 0 /\ monWg = 0
        /\ stepsRun = <<>>

C11_Witness ==
    /\ pc = "done"
    /\ retval.kind = "allocation"
    /\ DOMAIN cloudConfigMap = Regions
    /\ DOMAIN publicIPMap # {}

\* the allocation phase has ended without error: cloudConfigMap is complete
AllocationDone ==
    /\ pc \notin {"start", "createInstances", "createMonitoring", "monitoringIP", "regionLoop"}
    /\ ~(pc = "done" /\ retval.kind = "allocation")

\* the API-node count requested for a region of the allocation; the one region
\* of the E2E docker branch stands for every requested region
RequestedAPI(r) ==
    IF r \in DOMAIN numNodesMap
    THEN numNodesMap[r].numAPI
    ELSE SumOver([q \in DOMAIN numNodesMap |-> numNodesMap[q].numAPI], DOMAIN numNodesMap)

\* the API subset of region r is the trailing n identifiers of the region, and
\* not all of them
TrailingStrictSubset(r, n) ==
    LET ids == cloudConfigMap[r].InstanceIDs
        api == cloudConfigMap[r].APIInstanceIDs
    IN /\ Len(api) = n
       /\ n < Len(ids)
       /\ \A k \in 1..n : api[k] = ids[Len(ids) - n + k]

\* C12: for every region of the allocation the API subset has as many
\* identifiers as the API-node count requested for the region, and it is the
\* trailing identifiers of the region's list and a strict subset of it.
C12_Original ==
    AllocationDone =>
        \A r \in DOMAIN cloudConfigMap : TrailingStrictSubset(r, RequestedAPI(r))

\* the cluster name had no topology before the run
NoPriorTopology == ~Contains(ClusterNodes, PriorNode)

NoAPIRequested == \A r \in DOMAIN numNodesMap : numNodesMap[r].numAPI = 0

\* C13: after a run without monitoring on a cluster name with no prior
\* topology, the cluster's node list holds the run's instances, as many as the
\* instance counts of the requested regions add up to; when no API node is
\* requested every region's API subset and the cluster's API-node list are empty.
C13_TopologyCount ==
    (StoreWritten /\ ~addMonitoring /\ NoPriorTopology) =>
        /\ Len(ClusterNodes) = TotalNodes(numNodesMap)
        /\ Range(ClusterNodes) = RunInstances
        /\ \A r \in DOMAIN cloudConfigMap \cap DOMAIN numNodesMap :
              Len(cloudConfigMap[r].InstanceIDs)
                  = numNodesMap[r].numValidators + numNodesMap[r].numAPI
        /\ NoAPIRequested =>
              /\ \A r \in DOMAIN cloudConfigMap : cloudConfigMap[r].APIInstanceIDs = <<>>
              /\ clustersConfig[ClusterName].APINodes = <<>>

C13_Witness ==
    /\ StoreWritten
    /\ ~addMonitoring
    /\ NoPriorTopology
    /\ DOMAIN cloudConfigMap = Regions
    /\ numNodesMap["us-east-1"].numValidators = 2
    /\ numNodesMap["us-west-2"].numValidators = 1
    /\ NoAPIRequested
    /\ Len(ClusterNodes) = 3

IsPrefix(s, t) == Len(s) <= Len(t) /\ \A k \in DOMAIN s : s[k] = t[k]

\* an earlier run left a node of the cluster in the inventory
HadPriorRun ==
    Len(inventory) > 0 /\ inventory[1] = HostCloudIDToAnsibleID(cloudService, PriorNode)

\* C15: the node list of the cluster only grows by appending: every write
\* keeps the identifiers already recorded, in their order, and a run leaves
\* the earlier identifiers first and its own instances after them.
C15_AppendOnly ==
    /\ [][IsPrefix(ClusterNodes, ClusterNodes')]_vars
    /\ [](StoreWritten =>
            LET n == IF HadPriorRun THEN 1 ELSE 0
            IN /\ HadPriorRun => (Len(ClusterNodes) >= 1 /\ ClusterNodes[1] = PriorNode)
               /\ {ClusterNodes[k] : k \in (n + 1)..Len(ClusterNodes)} = RunInstances
               /\ Len(ClusterNodes) = n + Cardinality(RunInstances))

C15_Witness ==
    /\ StoreWritten
    /\ HadPriorRun
    /\ ClusterNodes[1] = PriorNode
    /\ Len(ClusterNodes) = 4

\* the aggregator of the fan-out whose goroutines stepsRun describes
PhaseResults ==
    IF LogPhase = "agent" THEN monWgResults
    ELSE IF LogPhase = "bootstrap" THEN wgResults ELSE hostErrors

\* the goroutines of the fan-out in progress
PhaseProcs ==
    IF LogPhase = "agent" THEN apc ELSE IF LogPhase = "bootstrap" THEN bpc ELSE rpc

\* C16: createNodes returns success only if no step of any host failed in
\* any phase: a failure of a host in the Readiness Gate, the bootstrap
\* pipeline or the agent configuration makes the command return an error,
\* and success is decided after the join barriers.
C16_Original ==
    (pc = "done" /\ retval.kind = "ok") =>
        /\ ~HasErrors(hostErrors) /\ ~HasErrors(wgResults) /\ ~HasErrors(monWgResults)
        /\ AllReturned(rpc) /\ AllReturned(bpc) /\ AllReturned(apc)
        /\ \A i \in DOMAIN stepsRun : ~Failed(i)

C18_Original ==
    \A i \in DOMAIN PhaseProcs :
        /\ hosts[i] \in DOMAIN PhaseResults => Failed(i)
        /\ (PhaseProcs[i] = "done" /\ Failed(i)) => hosts[i] \in DOMAIN PhaseResults

\* C19: in the agent configuration the round trips of the hosts are
\* independent: a goroutine can always take its next step, it stops only
\* after a failure of its own or after its last step, a failure is recorded
\* for the host it happened on and for no other, and the result is read when
\* all goroutines have returned.
C19_Original ==
    /\ LogPhase = "agent" =>
          \A i \in DOMAIN apc :
              /\ apc[i] # "done" =>
                    ENABLED (AgentStep(i) \/ AgentRewrite(i) \/ AgentCheckErr(i))
              /\ apc[i] = "done" =>
                    \/ Failed(i) /\ HasNodeIDWithError(monWgResults, hosts[i])
                    \/ ~Failed(i) /\ LastStep(i).step = "RunSSHRestartNode"
              /\ HasNodeIDWithError(monWgResults, hosts[i]) =>
                    (Failed(i) /\ apc[i] = "done")
    /\ pc = "agentCheck" => (DOMAIN apc = DOMAIN hosts /\ AllReturned(apc))

\* the calls of host.Command made for task k, in order
CommandsOf(k) == SelectSeq(commands, LAMBDA c : c.task = k)

\* the task's attempts are over and failed: no retry is left for it
FinalFailure(k) ==
    LET cs == CommandsOf(k) IN
      /\ Len(cs) >= 1
      /\ cs[Len(cs)].err # Nil
      /\ Len(cs) = 2 \/ cs[1].err # "ssh: handshake failed: EOF"

\* C20: a remote step is attempted at most twice; it is re-run exactly once,
\* after a pause, if and only if its first attempt failed with the SSH
\* handshake EOF error; any other failure, and any failure of the second
\* attempt, is returned at once without a further attempt of any step.
C20_RetryOnce ==
    \A k \in 0..MaxTasks + 1 :
      LET cs == CommandsOf(k) IN
        /\ Len(cs) <= 2
        /\ Len(cs) >= 1 => ~cs[1].afterPause
        /\ Len(cs) = 2 => /\ cs[1].err = "ssh: handshake failed: EOF"
                          /\ cs[2].afterPause
        /\ (Len(cs) = 1 /\ cs[1].err = "ssh: handshake failed: EOF")
             => (sshPc = "sleep" /\ taskN = k)
        /\ FinalFailure(k) =>
             /\ commands[Len(commands)].task = k
             /\ sshPc \in {"check", "returned"}
             /\ sshPc = "returned" => sshRet = cs[Len(cs)].err
        /\ (sshPc = "returned" /\ sshRet = Nil) =>
             (Len(cs) >= 1 => cs[Len(cs)].err = Nil)

\* a step was re-run after the handshake EOF error, failed again, and that
\* second failure was returned
C20_Witness ==
    /\ sshPc = "returned"
    /\ Len(commands) >= 3
    /\ LET c == commands[Len(commands)] IN
         /\ c.afterPause
         /\ c.err = "ssh: handshake failed: EOF"
         /\ sshRet = c.err
    /\ ~commands[1].afterPause /\ commands[1].err = Nil

\* the instance the run holds as the monitoring host of the cluster
MonitoringInstanceOfRun ==
    IF monitoringNodeConfig.InstanceIDs = <<>> THEN NoInstance
    ELSE monitoringNodeConfig.InstanceIDs[1]

\* C21: when monitoring is requested and the cluster has no recorded monitoring
\* instance the run allocates exactly one further instance for monitoring;
\* when the cluster has a recorded monitoring instance the run allocates none
\* and its monitoring host is the recorded one.
C21_Original ==
    AllocationDone =>
        /\ (addMonitoring /\ existingMonitoringInstance = NoInstance) =>
              /\ Len(monitoringNodeConfig.InstanceIDs) = 1
              /\ MonitoringInstanceOfRun \notin RunInstances
              /\ MonitoringInstanceOfRun # PriorMonitor
        /\ existingMonitoringInstance # NoInstance =>
              monitoringNodeConfig.InstanceIDs = <<existingMonitoringInstance>>
        /\ (~addMonitoring /\ existingMonitoringInstance = NoInstance) =>
              monitoringNodeConfig.InstanceIDs = <<>>

\* the hosts waitForHosts was called with
GatedHosts == RunHosts(inventory, cloudConfigMap)

\* a remote step of the pipeline of a newly allocated monitoring host has run
MonitoringHostStepRan ==
    /\ existingMonitoringInstance = NoInstance
    /\ \/ pc = "monitoringStep" /\ idx > 2
       \/ pc \in {"agentConfig", "agentCheck"}

\* C22: a newly allocated monitoring host passes the Readiness Gate, like the
\* main hosts, before any step of its own pipeline runs on it.
C22_Original ==
    MonitoringHostStepRan =>
        \E i \in DOMAIN rpc :
            /\ i \in DOMAIN GatedHosts
            /\ GatedHosts[i] = monitoringHosts[1]
            /\ rpc[i] = "done"

\* the position of the scrape-target push among the monitoring host's steps
PushIndex ==
    CHOOSE k \in DOMAIN MonitoringSteps(existingMonitoringInstance) :
        MonitoringSteps(existingMonitoringInstance)[k] = "RunSSHUpdatePrometheusConfig"

\* the run has pushed its scrape targets to the monitoring host
TargetsPushed ==
    \/ pc = "monitoringStep" /\ idx > PushIndex
    \/ pc \in {"agentConfig", "agentCheck"}

\* the bootstrap pipeline of the host succeeded in this run
Bootstrapped(h) == ~HasNodeIDWithError(wgResults, h)

\* C23: the scrape targets pushed to the monitoring host, new or existing,
\* hold an address/port pair for a main host if and only if the host is
\* bootstrapped: a host whose bootstrap failed in this run is not a target.
C23_Original ==
    TargetsPushed =>
        \A i \in DOMAIN hosts :
            /\ Contains(prometheusConfig.avalancheGo,
                        Target(InventoryIP(hosts[i], publicIPMap), "AvalanchegoAPIPort"))
                   <=> Bootstrapped(hosts[i])
            /\ Contains(prometheusConfig.machine,
                        Target(InventoryIP(hosts[i], publicIPMap), "AvalanchegoMachineMetricsPort"))
                   <=> Bootstrapped(hosts[i])

\* the address recorded for instance k of region r is the one the static-IP
\* policy prescribes
AddressOf(r, k) ==
    LET id == cloudConfigMap[r].InstanceIDs[k]
    IN /\ id \in DOMAIN publicIPMap
       /\ publicIPMap[id] = IF useStaticIP THEN cloudConfigMap[r].PublicIPs[k]
                            ELSE LookupIP(id)
       /\ useStaticIP => cloudConfigMap[r].PublicIPs[k] = ElasticIP(id)

\* C24: the address recorded for an allocated instance is the one the provider
\* reports in a lookup after the allocation when static IPs were not requested,
\* and the address of the same index of the allocation result when they were;
\* every allocated instance has its address before any host is dispatched.
C24_AddressSource ==
    /\ pc = "regionLoop" =>
          \A r \in DOMAIN cloudConfigMap \ regionsLeft :
              \A k \in DOMAIN cloudConfigMap[r].InstanceIDs : AddressOf(r, k)
    /\ AllocationDone =>
          /\ \A r \in DOMAIN cloudConfigMap :
                \A k \in DOMAIN cloudConfigMap[r].InstanceIDs : AddressOf(r, k)
          /\ DOMAIN publicIPMap = RunInstances
    /\ ~NoWorker => (AllocationDone /\ RunInstances \subseteq DOMAIN publicIPMap)

C24_Witness ==
    /\ useStaticIP
    /\ DOMAIN cloudConfigMap = Regions
    /\ DOMAIN rpc # {}
    /\ \A id \in RunInstances : publicIPMap[id] = ElasticIP(id)

\* C25: createNodes eventually returns success or an error, and when it has
\* returned every goroutine dispatched by the Readiness Gate, the bootstrap
\* fan-out and the agent configuration has returned and every barrier it
\* reached is behind it; a goroutine that has not returned can always take its
\* next step, whatever the goroutines of the other hosts do.
C25_Terminates ==
    /\ <>(pc = "done" /\ retval.kind # "running")
    /\ [](pc = "done" =>
            /\ AllReturned(rpc) /\ AllReturned(bpc) /\ AllReturned(apc)
            /\ createdWaitGroup = 0 /\ wg = 0 /\ monWg = 0)
    /\ [](\A i \in 1..MaxHosts :
            /\ (i \in DOMAIN rpc /\ rpc[i] # "done") => ENABLED WaitForSSHShell(i)
            /\ (i \in DOMAIN bpc /\ bpc[i] # "done") => ENABLED BootStep(i))

C25_Witness ==
    /\ pc = "done"
    /\ retval.kind = "ok"
    /\ Len(hosts) = 2
    /\ DOMAIN bpc = DOMAIN hosts
    /\ AllReturned(rpc) /\ AllReturned(bpc)
    /\ faults > 0

\* the sidecar records a subnet and a blockchain of the subnet for the network
DeployedTo(net) ==
    /\ net \in DOMAIN sidecarNetworks
    /\ sidecarNetworks[net].SubnetID # Empty
    /\ sidecarNetworks[net].BlockchainID # Empty

SubnetsOn(created, net) == {s \in created : s.net = net}

\* C26: once the sidecar records a subnet ID and a blockchain ID for a
\* network, no later deploy of the subnet to that network creates a subnet
\* or a blockchain on it.
C26_Original ==
    [][\A net \in DeployNetworks :
          DeployedTo(net) =>
              /\ SubnetsOn(chainSubnets', net) = SubnetsOn(chainSubnets, net)
              /\ SubnetsOn(chainBlockchains', net) = SubnetsOn(chainBlockchains, net)]_vars

\* preCreateChecks has returned: an error (createNodes returned it) or nil
ChecksRejected == pc = "done" /\ retval.kind # "running"
ChecksAccepted == pc \in {"start", "createInstances"}

NonPositive(counts) == \E i \in DOMAIN counts : counts[i] <= 0

\* C27: preCreateChecks rejects a request whose API-node counts hold a count
\* less than or equal to 0, and the API-count error is returned only for
\* such a request; it rejects API-node counts without --devnet, and with
\* --devnet it rejects API and validator count lists of different lengths.
C27_Original ==
    pc # "preCreateChecks" =>
        /\ NonPositive(flags.numAPINodes) => ChecksRejected
        /\ retval.kind = ErrNumAPINodes => NonPositive(flags.numAPINodes)
        /\ (Len(flags.numAPINodes) > 0 /\ ~flags.createDevnet) => ChecksRejected
        /\ (flags.createDevnet /\ Len(flags.numAPINodes) # Len(flags.numValidatorsNodes))
               => ChecksRejected

\* nothing of createNodes after the flag checks has acted
NoActionPerformed ==
    /\ existingMonitoringInstance = NoInstance
    /\ cloudConfigMap = EmptyMap
    /\ publicIPMap = EmptyMap
    /\ clustersConfig = EmptyMap
    /\ inventory = <<>>
    /\ monitoringInventory = <<>>
    /\ hosts = <<>>
    /\ stepsRun = <<>>

\* C28: preCreateChecks returns nil only if the distinct regions are as many
\* as the validator counts, every validator count is greater than 0, at most
\* one AvalancheGo version selector is set and AWS and GCP are not both
\* selected; otherwise createNodes returns the error and performs no cloud,
\* topology or inventory action.
C28_NilOnlyIfValid ==
    LET valid ==
            /\ Cardinality(Range(flags.cmdLineRegion)) = Len(flags.numValidatorsNodes)
            /\ ~NonPositive(flags.numValidatorsNodes)
            /\ Cardinality({b \in {<<"release", flags.useLatestAvalanchegoReleaseVersion>>,
                                   <<"prerelease", flags.useLatestAvalanchegoPreReleaseVersion>>,
                                   <<"subnet", flags.useAvalanchegoVersionFromSubnet # "">>,
                                   <<"custom", flags.useCustomAvalanchegoVersion # "">>} :
                              b[2]}) <= 1
            /\ ~(flags.useAWS /\ flags.useGCP)
    IN  /\ ChecksAccepted => valid
        /\ (pc # "preCreateChecks" /\ ~valid) => ChecksRejected /\ NoActionPerformed
        /\ ChecksRejected => NoActionPerformed

C28_Witness ==
    /\ pc = "createInstances"
    /\ Len(flags.numValidatorsNodes) = 2
    /\ flags.createDevnet
    /\ flags.useAWS
    /\ flags.useCustomAvalanchegoVersion # ""

\* the actions of the agent configuration of a host, in the order of the code
AgentOrder ==
    <<"RunSSHDownloadNodeMonitoringConfig", "addHTTPHostToConfigFile",
      "RunSSHUploadNodeMonitoringConfig", "RunSSHRestartNode">>

\* C29: in the agent configuration of a main host the actions run in the
\* order download, rewrite, upload, restart, and an action starts only if
\* every action before it succeeded for that host.
C29_Original ==
    \A i \in DOMAIN apc :
        /\ Len(stepsRun[i]) <= Len(AgentOrder)
        /\ \A k \in DOMAIN stepsRun[i] :
              /\ stepsRun[i][k].step = AgentOrder[k]
              /\ k < Len(stepsRun[i]) => stepsRun[i][k].res = Nil

\* C30: once CreateClusterNodeConfig has completed for the run, the network
\* the store records for the cluster is the network requested for the run,
\* with and without monitoring.
C30_Original ==
    StoreWritten =>
        /\ ClusterName \in DOMAIN clustersConfig
        /\ clustersConfig[ClusterName].Network = network

\* a step writes the Cluster Topology Store file
TopologyWrite == clustersConfig' # clustersConfig \/ keyPairs' # keyPairs

\* a goroutine of a fan-out of the run is running
WorkerRunning ==
    \/ \E i \in DOMAIN rpc : rpc[i] # "done"
    \/ \E i \in DOMAIN bpc : bpc[i] # "done"
    \/ \E i \in DOMAIN apc : apc[i] # "done"

\* C31: a step that writes the Cluster Topology Store (the cluster record or
\* the key pair map) is a step of the main goroutine inside
\* CreateClusterNodeConfig, taken while no worker goroutine of the run is
\* running and moving no worker; the writes of a run are therefore issued
\* one after the other by one writer.
C31_WritesBySingleWriter ==
    [][TopologyWrite =>
          /\ pc = "createClusterNodeConfig"
          /\ ~WorkerRunning /\ ~WorkerRunning'
          /\ <<rpc, bpc, apc>>' = <<rpc, bpc, apc>>]_vars

C31_Witness ==
    /\ WorkerRunning
    /\ addMonitoring
    /\ Len(hosts) = 2
    /\ \A id \in RunInstances : Contains(ClusterNodes, id)
    /\ clustersConfig[ClusterName].MonitoringInstance = monitoringNodeConfig.InstanceIDs[1]
    /\ KeyPairName(monitoringHostRegion) \in DOMAIN keyPairs

\* the monitoring-node identifier the store records for the cluster
MonitoringPointer(cfg) == getExistingMonitoringInstance(cfg, ClusterName)

\* C32: once the store records a monitoring-node identifier for the cluster,
\* no step of a provisioning run changes it to another identifier or clears it.
C32_Original ==
    [][MonitoringPointer(clustersConfig) # NoInstance =>
          MonitoringPointer(clustersConfig') = MonitoringPointer(clustersConfig)]_vars

\* the inventory name of the node an earlier run left in the cluster
PriorHost == HostCloudIDToAnsibleID(cloudService, PriorNode)

\* the hosts a goroutine of a fan-out was dispatched for
DispatchedHosts ==
    {hosts[i] : i \in (DOMAIN rpc \cup DOMAIN bpc \cup DOMAIN apc) \cap DOMAIN hosts}

\* C33: every host dispatched to the Readiness Gate, the bootstrap pipeline or
\* the agent configuration has an instance identifier allocated in this run;
\* a host the inventory holds from an earlier run is in no fan-out.
C33_OnlyRunHosts ==
    /\ (DOMAIN rpc \cup DOMAIN bpc \cup DOMAIN apc) \subseteq DOMAIN hosts
    /\ \A h \in Range(hosts) \cup DispatchedHosts :
          /\ GetCloudID(h) \in RunInstances
          /\ h # PriorHost

C33_Witness ==
    /\ Contains(inventory, PriorHost)
    /\ Len(hosts) = 2
    /\ DOMAIN rpc = DOMAIN hosts /\ DOMAIN bpc = DOMAIN hosts /\ DOMAIN apc = DOMAIN hosts
    /\ AllReturned(apc)

\* the fields of an object other than http-host
OtherFields(file) == [k \in DOMAIN file.fields \ {"http-host"} |-> file.fields[k]]

\* the calls so far all returned nil
AllSucceeded == \A k \in DOMAIN configRet : configRet[k] = Nil

\* C34: after addHTTPHostToConfigFile succeeds the file's http-host is
\* "0.0.0.0" and every other top-level key keeps the value it had; a second
\* successful call leaves the content of the first; a call that returns an
\* error leaves the content of the file as it was.
C34_Original ==
    /\ [](AllSucceeded /\ configRet # <<>> =>
             /\ configFile.kind = "object"
             /\ configFile.fields["http-host"] = <<"string", "0.0.0.0">>
             /\ OtherFields(configFile) = OtherFields(configOrig)
             /\ configFile = Rewrite(configOrig))
    /\ [][configRet' # configRet /\ configRet'[Len(configRet')] # Nil =>
             configFile' = configFile]_vars

RECURSIVE Reassemble(_, _)
\* the script the buffers and separators stand for: the lines of each buffer
\* after its preamble, each buffer but the first behind its separator
Reassemble(buffers, separators) ==
    IF buffers = <<>> THEN <<>>
    ELSE (IF Head(separators) = "" THEN <<>> ELSE <<Head(separators)>>)
             \o Tail(Head(buffers)) \o Reassemble(Tail(buffers), Tail(separators))

\* C35: splitScript returns as many buffers as separators, the first
\* separator is empty, each buffer starts with the bash preamble, and the
\* buffers hold every line of the input once, in order, in the section it
\* belongs to, a last line without a newline included; RunOverSSH runs the
\* titled sections in script order and stops at the first that fails.
C35_Original ==
    sshPc # "splitScript" =>
        /\ Len(tasks) = Len(taskTitle)
        /\ taskTitle[1] = ""
        /\ \A k \in DOMAIN tasks :
              /\ tasks[k][1] = Preamble
              /\ \A j \in 2..Len(tasks[k]) : ~HasSeparatorPrefix(tasks[k][j])
        /\ Reassemble(tasks, taskTitle) = script.lines
        /\ \A k \in DOMAIN commands :
              /\ taskTitle[commands[k].task + 1] # ""
              /\ k > 1 => /\ commands[k - 1].task <= commands[k].task
                          /\ commands[k - 1].err = Nil \/ commands[k].afterPause
        /\ (sshPc = "returned" /\ sshRet = Nil) =>
              {commands[k].task + 1 : k \in DOMAIN commands}
                  = {n \in 2..Len(taskTitle) : TRUE}

\* C36: each copy goroutine of Forward terminates whatever its copy
\* returned, and at most one goroutine assigns the err of Forward.
C36_Original ==
    /\ \A g \in Goroutines :
          (g \in DOMAIN gpc) ~> (g \in DOMAIN gpc /\ gpc[g] = "done")
    /\ [](Cardinality(errWriters) <= 1)

\* the step of deploySubnet that returns after DeployBlockchain was called
ReturnsAfterBlockchain == deployPc = "record" /\ deployPc' = "returned"

\* C37: when DeployBlockchain failed, deploySubnet returns a non-nil error
\* and leaves the sidecar as it was; the partially signed transaction is
\* saved exactly when DeployBlockchain succeeded and the transaction is not
\* fully signed.
C37_Original ==
    [][ReturnsAfterBlockchain =>
          /\ deployErr # Nil =>
                /\ deployRet' # Nil
                /\ sidecarNetworks' = sidecarNetworks
          /\ partialTxs' # partialTxs => (deployErr = Nil /\ ~isFullySigned)
          /\ (deployRet' = Nil /\ deployErr = Nil /\ ~isFullySigned) =>
                [net |-> deployNetwork, subnet |-> subnetID] \in partialTxs']_vars

\* the block is past the validation of the threshold without an error
ThresholdAccepted == keysPc \in {"subnetAuthKeys", "DeploySubnet", "deployed"}

\* C38: the threshold DeploySubnet is called with is between 1 and the
\* number of control keys; a given threshold above the number of control
\* keys is rejected; a zero threshold becomes the number of given
\* subnet-auth keys or the answer of the prompt; getThreshold returns 1 for
\* one control key and otherwise a value in 1..maxLen.
C38_ThresholdInRange ==
    /\ deployArgs.called =>
          /\ 1 <= deployArgs.threshold
          /\ deployArgs.threshold <= Len(deployArgs.controlKeys)
    /\ (ThresholdAccepted /\ keyFlags.threshold > 0) =>
          /\ threshold = keyFlags.threshold
          /\ threshold <= Len(controlKeys.elems)
    /\ (keysPc = "returned" /\ keysRet = "given threshold is greater than number of control keys")
          => threshold > Len(controlKeys.elems)
    /\ (ThresholdAccepted /\ keyFlags.threshold = 0) =>
          IF Len(keyFlags.subnetAuthKeys.elems) > 0
          THEN threshold = Len(keyFlags.subnetAuthKeys.elems)
          ELSE threshold \in {r.val : r \in getThreshold(Len(controlKeys.elems))}
    /\ \A maxLen \in 0..(MaxKeys + 1) :
          \A r \in getThreshold(maxLen) :
              r.err = Nil => /\ r.val \in 1..maxLen
                             /\ maxLen = 1 => r.val = 1

C38_Witness ==
    /\ deployArgs.called
    /\ keyFlags.threshold = 0
    /\ keyFlags.subnetAuthKeys.isNil
    /\ keyFlags.controlKeys.isNil
    /\ deployArgs.threshold = 2
    /\ Len(deployArgs.controlKeys) = 3

\* the number of network flags set
NetworkFlagsSet == Cardinality({i \in 1..4 : NetworkFlagList(networkFlags)[i]})

\* the network of the only flag set
OnlyFlagNetwork ==
    IF networkFlags.useLocal THEN "Local"
    ELSE IF networkFlags.useDevnet THEN "Devnet"
    ELSE IF networkFlags.useFuji THEN "Fuji"
    ELSE "Mainnet"

\* C39: GetNetworkFromCmdLineFlags returns a network without error only if
\* its kind is supported: with one flag set it returns the network of the
\* flag when supported and an error when not, with two or more flags set it
\* returns an error, and with no flag set it returns the network chosen
\* among the supported ones.
C39_OnlySupportedNetworks ==
    networkPc = "returned" =>
       /\ networkRet.err = Nil => networkRet.network \in networkFlags.supportedNetworkKinds
       /\ NetworkFlagsSet = 1 =>
             IF OnlyFlagNetwork \in networkFlags.supportedNetworkKinds
             THEN networkRet = [network |-> OnlyFlagNetwork, err |-> Nil]
             ELSE networkRet.err # Nil
       /\ NetworkFlagsSet >= 2 => networkRet.err # Nil
       /\ (NetworkFlagsSet = 0 /\ networkRet.err = Nil) =>
             networkRet.network \in networkFlags.supportedNetworkKinds

C39_Witness ==
    /\ networkPc = "returned"
    /\ networkFlags.useFuji
    /\ NetworkFlagsSet = 1
    /\ networkFlags.supportedNetworkKinds = {"Fuji", "Devnet"}
    /\ networkRet = [network |-> "Fuji", err |-> Nil]

\* the key sources the caller gave: the ledger (by flag or by addresses),
\* ewoq, a stored key
LedgerGiven == keychainArgs.useLedger \/ Len(keychainArgs.ledgerAddresses) > 0
SourcesGiven ==
    Cardinality({i \in 1..3 :
                   <<LedgerGiven, keychainArgs.useEwoq, keychainArgs.keyName # "">>[i]})
KeychainReturned == keychainPc = "returned"
KeychainOK == KeychainReturned /\ keychainRet.err = Nil

====
